---------------------------- MODULE Spec2Model ----------------------------
(***************************************************************************)
(* Walkie (contract Bombomb + backend): provably fair path game.           *)
(*                                                                         *)
(* The on-chain contract (commitSaltHash, startGame, entropyCallback,      *)
(* setGameTiles, revealTile, completeGame, cancelGame), the map generator  *)
(* of the backend (selectStartAndFinish, placeBombsWithNonce, hasPath,     *)
(* isRewardTile, getTileReward) and the backend's game store with its      *)
(* player-facing read paths.                                               *)
(*                                                                         *)
(* Representation:                                                         *)
(*   - bytes32 values are naturals, bytes32(0) is 0;                       *)
(*   - keccak256 is a fixed mixing function over the packed fields;        *)
(*   - a bitmap (revealedTiles, bombBitmap) is the set of its set bits;    *)
(*     tile indices stay below 49 < 64, so no shift overflows;             *)
(*   - a transaction that reverts leaves the state unchanged, so a         *)
(*     reverting call is a call whose action is not enabled.               *)
(***************************************************************************)
EXTENDS Integers, Sequences, FiniteSets, TLC

(***************************************************************************)
(* Bounds of the model                                                     *)
(***************************************************************************)
MaxGames == 1        \* games played in Spec and in BackendSpec
MaxGameId == 2       \* the game ids the mappings hold; LifecycleSpec plays them all
MaxReveals == 4      \* accepted revealTile calls per game
MaxNonce == 1        \* completeGame's nonce argument ranges over 0..MaxNonce
MaxRequests == 2     \* reveal requests whose handlers may be in flight together
MaxPrepares == 2     \* prepare requests whose handlers may be in flight together
MaxCalls == 2        \* sendSyncTx calls that may be in flight together

\* the secret salts the backend draws from, and the values the VRF delivers
Salts == {12, 23}
\* the salts whose hash the backend commits
CommitSalts == {12}
PythSeeds == {1, 41}

\* addresses
Players == {"alice"}
Owner == "owner"
Relayer == "relayer"
Stranger == "mallory"
NoAddress == "0x0"
Senders == Players \cup {Owner, Relayer, Stranger}

(***************************************************************************)
(* Hash-chain utility                                                      *)
(***************************************************************************)
HashModulus == 32749
HashInit == 17

\* encoding of the string literals that are packed into hashed data
StrCode(s) ==
    CASE s = "start" -> 101
      [] s = "finish" -> 102
      [] s = "bomb" -> 103
      [] s = "reward" -> 104
      [] s = "rewardCount" -> 105
      [] s = "rewardPos" -> 106
      [] s = "WALKIE_V5_PROVABLY_FAIR" -> 107

RECURSIVE KeccakFold(_, _, _)
KeccakFold(data, k, h) ==
    IF k > Len(data) THEN h
    ELSE LET t == (h + data[k] + 1) % HashModulus
         IN  KeccakFold(data, k + 1, (t * t + 5 * t + 11) % HashModulus)

\* keccak256(abi.encodePacked(...)): data is the sequence of packed fields
keccak256(data) == KeccakFold(data, 1, HashInit)

VERSION == keccak256(<<StrCode("WALKIE_V5_PROVABLY_FAIR")>>)

(***************************************************************************)
(* Contract constants and grid helpers                                     *)
(***************************************************************************)
PRECISION == 10000
FEE_PERCENT == 250

\* uint256 roll = uint256(hash) % 10000
RollModulus == 10000

REWARD_TIERS == <<1000, 2000, 5000, 10000, 20000, 50000, 100000>>
TIER_THRESHOLDS == <<3500, 6000, 8000, 9200, 9700, 9950, 10000>>

\* enum GamePhase
None == 0
WaitingVRF == 1
Active == 2
Completed == 3

\* enum TileType
Empty == 0
Bomb == 1
Reward == 2

_getGridTotalTiles(gridWidth) == gridWidth * gridWidth

_getBombCount(gridWidth) ==
    CASE gridWidth = 5 -> 3
      [] gridWidth = 6 -> 5
      [] gridWidth = 7 -> 7

_isValidGridSize(gridWidth) == gridWidth = 5 \/ gridWidth = 6 \/ gridWidth = 7

_isAdjacent4Way(from, to, gridWidth) ==
    LET totalTiles == gridWidth * gridWidth
        fromX == from % gridWidth
        fromY == from \div gridWidth
        toX == to % gridWidth
        toY == to \div gridWidth
        dx == toX - fromX
        dy == toY - fromY
    IN  IF from >= totalTiles \/ to >= totalTiles THEN FALSE
        ELSE \/ (dx = 0 /\ (dy = 1 \/ dy = -1))
             \/ (dy = 0 /\ (dx = 1 \/ dx = -1))

\* the tiles 0..totalTiles-1 except start and finish, in increasing order
AvailableTiles(totalTiles, excluded) ==
    SelectSeq([k \in 1..totalTiles |-> k - 1], LAMBDA t : t \notin excluded)

Swap(arr, i, j) == [arr EXCEPT ![i + 1] = arr[j + 1], ![j + 1] = arr[i + 1]]

RECURSIVE BombShuffle(_, _, _, _, _, _, _)
BombShuffle(available, bitmap, i, bombCount, finalSeed, gameId, nonce) ==
    IF i >= bombCount THEN bitmap
    ELSE LET hash == keccak256(<<finalSeed, gameId, StrCode("bomb"), nonce, i, VERSION>>)
             remaining == Len(available) - i
             j == i + (hash % remaining)
             swapped == Swap(available, i, j)
         IN  BombShuffle(swapped, bitmap \cup {swapped[i + 1]}, i + 1,
                         bombCount, finalSeed, gameId, nonce)

\* Fisher-Yates partial shuffle of the contract; the result is the bomb bitmap
_calculateBombs(finalSeed, gameId, _startTile, _finishTile, gridWidth, bombCount, nonce) ==
    BombShuffle(AvailableTiles(gridWidth * gridWidth, {_startTile, _finishTile}),
                {}, 0, bombCount, finalSeed, gameId, nonce)

\* the reward tables are storage of the contract: the constructor fills them and
\* setRewardTiers replaces them
VARIABLES
    rewardTiers,        \* uint32[7] public REWARD_TIERS
    tierThresholds      \* uint16[7] public TIER_THRESHOLDS

tierVars == <<rewardTiers, tierThresholds>>

RECURSIVE TierAmount(_, _, _, _)
TierAmount(roll, i, betAmount, thresholds) ==
    IF i > 7 THEN (betAmount * rewardTiers[7]) \div 10000
    ELSE IF roll < thresholds[i] THEN (betAmount * rewardTiers[i]) \div 10000
    ELSE TierAmount(roll, i + 1, betAmount, thresholds)

_calculateReward(finalSeed, gameId, tileIndex, betAmount) ==
    LET hash == keccak256(<<finalSeed, gameId, StrCode("reward"), tileIndex, VERSION>>)
        roll == hash % RollModulus
    IN  TierAmount(roll, 1, betAmount, tierThresholds)

(***************************************************************************)
(* Backend map generator                                                   *)
(***************************************************************************)
GRID_CONFIG(gridWidth) ==
    CASE gridWidth = 6 -> [size |-> 36, bombs |-> 5, minRewards |-> 7, maxRewards |-> 10]
      [] gridWidth = 7 -> [size |-> 49, bombs |-> 7, minRewards |-> 10, maxRewards |-> 14]
      [] OTHER -> [size |-> 25, bombs |-> 3, minRewards |-> 5, maxRewards |-> 8]

getGridConfig(gridWidth) == GRID_CONFIG(gridWidth)

\* neighbours that ignore the row a tile is in
getAdjacent4Way_Wrapping(tile, gridWidth) ==
    LET y == tile \div gridWidth
    IN  (IF y > 0 THEN <<tile - gridWidth>> ELSE <<>>)
        \o (IF y < gridWidth - 1 THEN <<tile + gridWidth>> ELSE <<>>)
        \o (IF tile > 0 THEN <<tile - 1>> ELSE <<>>)
        \o (IF tile < gridWidth * gridWidth - 1 THEN <<tile + 1>> ELSE <<>>)

\* the array of neighbours: up, down, left, right
getAdjacent4Way(tile, gridWidth) ==
    LET x == tile % gridWidth
        y == tile \div gridWidth
    IN  (IF y > 0 THEN <<tile - gridWidth>> ELSE <<>>)
        \o (IF y < gridWidth - 1 THEN <<tile + gridWidth>> ELSE <<>>)
        \o (IF x > 0 THEN <<tile - 1>> ELSE <<>>)
        \o (IF x < gridWidth - 1 THEN <<tile + 1>> ELSE <<>>)

\* getAdjacent4Way(from, gridWidth).includes(to)
isAdjacent4Way(from, to, gridWidth) ==
    LET adjacent == getAdjacent4Way(from, gridWidth)
    IN  \E k \in 1..Len(adjacent) : adjacent[k] = to

\* hasPath, the for loop over the neighbours of the dequeued tile, from the k-th on;
\* pushed lists every tile that was ever put on the queue
RECURSIVE VisitNeighbors(_, _, _, _, _, _)
VisitNeighbors(adjacent, k, queue, visited, pushed, bombSet) ==
    IF k > Len(adjacent) THEN [queue |-> queue, visited |-> visited, pushed |-> pushed]
    ELSE LET neighbor == adjacent[k]
         IN  IF neighbor \notin visited /\ neighbor \notin bombSet
             THEN VisitNeighbors(adjacent, k + 1, Append(queue, neighbor),
                                 visited \cup {neighbor}, Append(pushed, neighbor), bombSet)
             ELSE VisitNeighbors(adjacent, k + 1, queue, visited, pushed, bombSet)

\* hasPath, the while loop over the queue
RECURSIVE BfsQueue(_, _, _, _, _, _)
BfsQueue(queue, visited, pushed, finish, bombSet, gridWidth) ==
    IF queue = <<>> THEN [found |-> FALSE, pushed |-> pushed]
    ELSE LET current == Head(queue)
         IN  IF current = finish THEN [found |-> TRUE, pushed |-> pushed]
             ELSE LET after == VisitNeighbors(getAdjacent4Way(current, gridWidth), 1,
                                              Tail(queue), visited, pushed, bombSet)
                  IN  BfsQueue(after.queue, after.visited, after.pushed, finish, bombSet,
                               gridWidth)

\* hasPath with the record of what it enqueued
SearchPath(start, finish, bombSet, gridWidth) ==
    IF start \in bombSet \/ finish \in bombSet THEN [found |-> FALSE, pushed |-> <<>>]
    ELSE BfsQueue(<<start>>, {start}, <<start>>, finish, bombSet, gridWidth)

hasPath(start, finish, bombSet, gridWidth) ==
    SearchPath(start, finish, bombSet, gridWidth).found

calculateFinalSeed(pythSeed, backendSalt, gameId) ==
    keccak256(<<pythSeed, backendSalt, gameId, VERSION>>)

selectStartAndFinish(finalSeed, gameId, gridWidth) ==
    LET totalTiles == gridWidth * gridWidth
        startHash == keccak256(<<finalSeed, gameId, StrCode("start"), VERSION>>)
        finishHash == keccak256(<<finalSeed, gameId, StrCode("finish"), VERSION>>)
    IN  [startTile |-> (totalTiles - gridWidth) + (startHash % gridWidth),
         finishTile |-> finishHash % gridWidth]

maxAttempts == 100

\* a swap index that is not offset by the number of tiles already drawn
SwapIndex_FromZero(i, hash, length) == hash % (length - i)

\* placeBombsWithNonce: j = i + Number(BigInt(hash) % BigInt(available.length - i))
SwapIndex(i, hash, length) == i + (hash % (length - i))

\* placeBombsWithNonce, "Fisher-Yates shuffle to select bombs"
RECURSIVE PlaceShuffle(_, _, _, _, _, _, _)
PlaceShuffle(available, bombs, i, bombCount, finalSeed, gameId, nonce) ==
    IF i >= bombCount THEN bombs
    ELSE LET hash == keccak256(<<finalSeed, gameId, StrCode("bomb"), nonce, i, VERSION>>)
             j == SwapIndex(i, hash, Len(available))
             swapped == Swap(available, i, j)
         IN  PlaceShuffle(swapped, bombs \cup {swapped[i + 1]}, i + 1, bombCount,
                          finalSeed, gameId, nonce)

\* the trap layout of one attempt of the loop
BombLayout(nonce, finalSeed, gameId, startTile, finishTile, gridWidth) ==
    LET config == getGridConfig(gridWidth)
        totalTiles == config.size
        bombCount == config.bombs
    IN  PlaceShuffle(AvailableTiles(totalTiles, {startTile, finishTile}),
                     {}, 0, bombCount, finalSeed, gameId, nonce)

\* a loop that returns the layout of every attempt
LayoutAccepted_Unchecked(startTile, finishTile, bombs, gridWidth) == TRUE

\* placeBombsWithNonce, "Check if path exists"
LayoutAccepted(startTile, finishTile, bombs, gridWidth) ==
    hasPath(startTile, finishTile, bombs, gridWidth)

\* the loop from attempt nonce on, under a limit of `attempts` attempts, and
\* the fallback after it
RECURSIVE PlaceBombsWithin(_, _, _, _, _, _, _)
PlaceBombsWithin(attempts, nonce, finalSeed, gameId, startTile, finishTile, gridWidth) ==
    IF nonce >= attempts THEN [bombSet |-> {5, 9, 15}, nonce |-> 0]
    ELSE LET bombs == BombLayout(nonce, finalSeed, gameId, startTile, finishTile, gridWidth)
         IN  IF LayoutAccepted(startTile, finishTile, bombs, gridWidth)
             THEN [bombSet |-> bombs, nonce |-> nonce]
             ELSE PlaceBombsWithin(attempts, nonce + 1, finalSeed, gameId, startTile,
                                   finishTile, gridWidth)

PlaceBombsFrom(nonce, finalSeed, gameId, startTile, finishTile, gridWidth) ==
    PlaceBombsWithin(maxAttempts, nonce, finalSeed, gameId, startTile, finishTile, gridWidth)

placeBombsWithNonce(finalSeed, gameId, startTile, finishTile, gridWidth) ==
    PlaceBombsFrom(0, finalSeed, gameId, startTile, finishTile, gridWidth)

\* a reward count whose offset is taken modulo maxRewards + 1
getRewardCount_WideOffset(finalSeed, gameId, gridWidth) ==
    LET config == getGridConfig(gridWidth)
        hash == keccak256(<<finalSeed, gameId, StrCode("rewardCount"), VERSION>>)
    IN  config.minRewards + (hash % (config.maxRewards + 1))

getRewardCount(finalSeed, gameId, gridWidth) ==
    LET config == getGridConfig(gridWidth)
        hash == keccak256(<<finalSeed, gameId, StrCode("rewardCount"), VERSION>>)
        range == config.maxRewards - config.minRewards
    IN  config.minRewards + (hash % (range + 1))

RECURSIVE RewardShuffle(_, _, _, _, _)
RewardShuffle(available, i, count, finalSeed, gameId) ==
    IF i >= count THEN available
    ELSE LET hash == keccak256(<<finalSeed, gameId, StrCode("rewardPos"), i, VERSION>>)
             j == i + (hash % (Len(available) - i))
         IN  RewardShuffle(Swap(available, i, j), i + 1, count, finalSeed, gameId)

\* the first actualRewardCount entries of the shuffled list
RewardPositions(finalSeed, gameId, bombSet, startTile, finishTile, gridWidth) ==
    LET config == getGridConfig(gridWidth)
        rewardCount == getRewardCount(finalSeed, gameId, gridWidth)
        available == AvailableTiles(config.size, {startTile, finishTile} \cup bombSet)
        actualRewardCount == IF rewardCount < Len(available) THEN rewardCount ELSE Len(available)
        shuffled == RewardShuffle(available, 0, actualRewardCount, finalSeed, gameId)
    IN  {shuffled[k] : k \in 1..actualRewardCount}

isRewardTile(finalSeed, gameId, bombSet, startTile, finishTile, tileIndex, gridWidth) ==
    IF tileIndex = startTile \/ tileIndex = finishTile \/ tileIndex \in bombSet THEN FALSE
    ELSE tileIndex \in RewardPositions(finalSeed, gameId, bombSet, startTile, finishTile, gridWidth)

\* the backend's tables, REWARD_TIERS and TIER_THRESHOLDS of the server
BackendRewardTiers == <<1000, 2000, 5000, 10000, 20000, 50000, 100000>>
BackendTierThresholds == <<3500, 6000, 8000, 9200, 9700, 9950, 10000>>

\* a tier that also takes the roll equal to its threshold
TierReached_Inclusive(roll, threshold) == roll <= threshold

\* getTileReward: if (roll < TIER_THRESHOLDS[i])
TierReached(roll, threshold) == roll < threshold

\* getTileReward, the loop over the tiers from index i on (0-based as in the source)
RECURSIVE TierReward(_, _, _)
TierReward(roll, i, betAmount) ==
    IF i >= 7 THEN (betAmount * BackendRewardTiers[6 + 1]) \div 10000
    ELSE IF TierReached(roll, BackendTierThresholds[i + 1])
         THEN (betAmount * BackendRewardTiers[i + 1]) \div 10000
         ELSE TierReward(roll, i + 1, betAmount)

getTileReward(finalSeed, gameId, betAmount, tileIndex) ==
    LET hash == keccak256(<<finalSeed, gameId, StrCode("reward"), tileIndex, VERSION>>)
        roll == hash % RollModulus
    IN  TierReward(roll, 0, betAmount)

(***************************************************************************)
(* The verifier page, verify.js, called on its own                         *)
(***************************************************************************)
\* verify.js calculateMapFromSeeds: the trap layout of one attempt of its loop
VerifierLayout(nonce, finalSeed, gameId, startTile, finishTile, totalTiles, bombCount) ==
    LET RECURSIVE Draw(_, _, _)
        Draw(available, bombs, i) ==
            IF i >= bombCount THEN bombs
            ELSE LET hash == keccak256(<<finalSeed, gameId, StrCode("bomb"), nonce, i,
                                         VERSION>>)
                     j == i + (hash % (Len(available) - i))
                     swapped == Swap(available, i, j)
                 IN  Draw(swapped, bombs \cup {swapped[i + 1]}, i + 1)
    IN  Draw(AvailableTiles(totalTiles, {startTile, finishTile}), {}, 0)

\* its loop from attempt nonce on, under a limit of `attempts` attempts; a loop that
\* never breaks leaves bombSet empty and usedNonce 0
RECURSIVE VerifierBombsWithin(_, _, _, _, _, _, _)
VerifierBombsWithin(attempts, nonce, finalSeed, gameId, startTile, finishTile, gridWidth) ==
    LET config == GRID_CONFIG(gridWidth)
    IN  IF nonce >= attempts THEN [bombSet |-> {}, nonce |-> 0]
        ELSE LET bombs == VerifierLayout(nonce, finalSeed, gameId, startTile, finishTile,
                                         config.size, config.bombs)
             IN  IF hasPath(startTile, finishTile, bombs, gridWidth)
                 THEN [bombSet |-> bombs, nonce |-> nonce]
                 ELSE VerifierBombsWithin(attempts, nonce + 1, finalSeed, gameId,
                                          startTile, finishTile, gridWidth)

\* verify.js getRewardPositions, as the set of the positions it returns
getRewardPositions(finalSeed, gameId, bombSet, startTile, finishTile, gridWidth) ==
    LET config == GRID_CONFIG(gridWidth)
        rewardCount == getRewardCount(finalSeed, gameId, gridWidth)
        available == AvailableTiles(config.size, {startTile, finishTile} \cup bombSet)
        actualRewardCount == IF rewardCount < Len(available) THEN rewardCount
                             ELSE Len(available)
        RECURSIVE Draw(_, _)
        Draw(list, i) ==
            IF i >= actualRewardCount THEN list
            ELSE LET hash == keccak256(<<finalSeed, gameId, StrCode("rewardPos"), i,
                                         VERSION>>)
                     j == i + (hash % (Len(list) - i))
                 IN  Draw(Swap(list, i, j), i + 1)
    IN  {Draw(available, 0)[k] : k \in 1..actualRewardCount}

\* calculateMapFromSeeds with its loop limited to `attempts` attempts
CalculateMapWithin(attempts, vrfSeed, backendSalt, gameId, gridWidth) ==
    LET config == GRID_CONFIG(gridWidth)
        totalTiles == config.size
        finalSeed == keccak256(<<vrfSeed, backendSalt, gameId, VERSION>>)
        bottomRowStart == totalTiles - gridWidth
        startHash == keccak256(<<finalSeed, gameId, StrCode("start"), VERSION>>)
        startTile == bottomRowStart + (startHash % gridWidth)
        finishHash == keccak256(<<finalSeed, gameId, StrCode("finish"), VERSION>>)
        finishTile == finishHash % gridWidth
        placed == VerifierBombsWithin(attempts, 0, finalSeed, gameId, startTile,
                                      finishTile, gridWidth)
    IN  [finalSeed |-> finalSeed, startTile |-> startTile, finishTile |-> finishTile,
         bombPositions |-> placed.bombSet, nonce |-> placed.nonce,
         rewardTiles |-> getRewardPositions(finalSeed, gameId, placed.bombSet, startTile,
                                            finishTile, gridWidth),
         generated |-> TRUE]

calculateMapFromSeeds(vrfSeed, backendSalt, gameId, gridWidth) ==
    CalculateMapWithin(maxAttempts, vrfSeed, backendSalt, gameId, gridWidth)

\* the backend's map for the same seeds, with its loop limited to `attempts` attempts:
\* calculateFinalSeed, selectStartAndFinish, placeBombsWithNonce and the tiles for which
\* isRewardTile holds
BackendMapWithin(attempts, vrfSeed, backendSalt, gameId, gridWidth) ==
    LET finalSeed == calculateFinalSeed(vrfSeed, backendSalt, gameId)
        tiles == selectStartAndFinish(finalSeed, gameId, gridWidth)
        placed == PlaceBombsWithin(attempts, 0, finalSeed, gameId, tiles.startTile,
                                   tiles.finishTile, gridWidth)
    IN  [finalSeed |-> finalSeed, startTile |-> tiles.startTile,
         finishTile |-> tiles.finishTile, bombPositions |-> placed.bombSet,
         nonce |-> placed.nonce,
         rewardTiles |-> {t \in 0..(getGridConfig(gridWidth).size - 1) :
                             isRewardTile(finalSeed, gameId, placed.bombSet, tiles.startTile,
                                          tiles.finishTile, t, gridWidth)},
         generated |-> TRUE]


(***************************************************************************)
(* Contract state                                                          *)
(***************************************************************************)
VARIABLES
    games,              \* mapping(uint64 => Game)
    gameCounter,
    vrfSeqToGame,       \* mapping(uint64 => uint64)
    playerActiveGame,   \* mapping(address => uint64)
    pendingSaltHash,    \* mapping(address => bytes32)
    revealedTiles,      \* mapping(uint64 => uint256), as the set of set bits
    hitBombAt,          \* mapping(uint64 => uint8), 0 = no bomb, else index + 1
    foxPosition,
    startTile,
    finishTile,
    bombBitmap,         \* mapping(uint64 => uint64), as the set of set bits
    gameGridSize,
    gameReveals,        \* mapping(uint64 => TileReveal[])
    balance,            \* address(this).balance
    now,                \* block.timestamp, in units longer than one hour
    \* history of the calls and transfers, not read by the contract
    saltCommitted,      \* the (player, saltHash) pairs of the SaltCommitted events
    vrfRequested,       \* the game ids for which entropy.requestV2 was called
    completeArgs,       \* per game: the arguments of the completeGame call that succeeded
    paidOut,            \* per game: the value sent to the player
    feesPaid,           \* the value sent to feeRecipient
    statistics,         \* totalGamesPlayed, totalVolume, totalPayout, totalWins, totalLosses
    feeRecipient        \* the address that receives the house fee

contractVars == <<games, gameCounter, vrfSeqToGame, playerActiveGame, pendingSaltHash,
                  revealedTiles, hitBombAt, foxPosition, startTile, finishTile, bombBitmap,
                  gameGridSize, gameReveals, balance, now,
                  saltCommitted, vrfRequested, completeArgs, paidOut, feesPaid,
                  statistics, feeRecipient>>

\* the state of the backend server
VARIABLES
    dbGame,             \* the Game collection, one document per game_id
    dbActions,          \* the Action collection, per game_id in insertion order
    dbPendingSalts,     \* the PendingSalt collection, ordered by created_at
    pendingSaltCache,   \* Map player -> { salt, saltHash }
    eventCursor,        \* per game: how many of its contract events were handled
    relayerTxs,         \* the transactions the relayer has submitted
    response            \* the last message sent to a player (HTTP body or broadcast)

backendVars == <<dbGame, dbActions, dbPendingSalts, pendingSaltCache, eventCursor,
                 relayerTxs, response>>

\* the Map Generator called on its own
VARIABLES
    mapInput,           \* the arguments: finalSeed, gameId, gridWidth
    mapOutput           \* the map returned for them

mapVars == <<mapInput, mapOutput>>

\* the reveal route of the backend server, POST /api/game/:gameId/reveal
VARIABLES
    revealRequests,     \* per request in flight: where its handler stands, and its locals
    pendingReveals,     \* Map `${gameId}:${tileIdx}` -> true, as the set of its keys
    revealedTilesCache  \* Map gameId -> Set of tile indices

revealVars == <<revealRequests, pendingReveals, revealedTilesCache>>

\* the other services of the backend server
VARIABLES
    prepareRequests,    \* per POST /api/game/prepare in flight: its position and locals
    \* NonceManager and the sendSyncTx calls in flight
    currentNonce,       \* NonceManager.currentNonce
    accountNonce,       \* the transactions of the relayer account that were mined
    txAttempts,         \* per sendSyncTx call: its position, attempt and nonce
    \* EventListener
    isRunning,
    reconnectAttempts,
    socket,             \* provider.websocket: none, connecting, open or closed
    reconnectTimer,     \* the setTimeout of scheduleReconnect
    failedConnects      \* history: connect() calls since a connection was last open

nonceVars == <<currentNonce, accountNonce, txAttempts>>
listenerVars == <<isRunning, reconnectAttempts, socket, reconnectTimer, failedConnects>>
serviceVars == <<prepareRequests, nonceVars, listenerVars>>

vars == <<games, gameCounter, vrfSeqToGame, playerActiveGame, pendingSaltHash,
          revealedTiles, hitBombAt, foxPosition, startTile, finishTile, bombBitmap,
          gameGridSize, gameReveals, balance, now,
          saltCommitted, vrfRequested, completeArgs, paidOut, feesPaid, statistics,
          feeRecipient, dbGame, dbActions, dbPendingSalts, pendingSaltCache, eventCursor,
          relayerTxs, response, mapInput, mapOutput, revealRequests, pendingReveals,
          revealedTilesCache, rewardTiers, tierThresholds, prepareRequests,
          currentNonce, accountNonce, txAttempts,
          isRunning, reconnectAttempts, socket, reconnectTimer, failedConnects>>

GameIds == 1..MaxGameId

RequestIds == 1..MaxRequests
PrepareIds == 1..MaxPrepares
CallIds == 1..MaxCalls

\* entropy.requestV2 numbers the requests; the n-th request gets this number
SequenceNumber(n) == 100 + n
SequenceNumbers == {SequenceNumber(n) : n \in 0..MaxGameId}

\* amounts are in units of 0.001 MON: the deployment's bet limits and funding
minBet == 10
maxBet == 10000
InitialBalance == 1000
\* what entropy.getFeeV2() returns
EntropyFee == 1

GridInputs == {4, 5}
MsgValues == {EntropyFee + 5, EntropyFee + 100}
SaltHashInputs == {0} \cup {keccak256(<<s>>) : s \in CommitSalts}
\* what the relayer claims about a tile: (tileType, reward)
ClaimInputs == {<<Empty, 0>>, <<Bomb, 0>>, <<Reward, 20>>}

NoMapInput == [finalSeed |-> 0, gameId |-> 0, gridWidth |-> 0]
NoMap == [startTile |-> 0, finishTile |-> 0, bombSet |-> {}, nonce |-> 0, generated |-> FALSE]

NoGame ==
    [player |-> NoAddress, betAmount |-> 0, revealedCount |-> 0, collectedReward |-> 0,
     vrfCommitment |-> 0, backendSaltHash |-> 0, phase |-> None, won |-> FALSE,
     payout |-> 0, timestamp |-> 0, pythSeed |-> 0]

NoCall == [called |-> FALSE, backendSalt |-> 0, nonce |-> 0]

\* no document with this game_id; null is 0, an absent array is empty
NoDoc ==
    [exists |-> FALSE, player |-> NoAddress, bet_amount |-> 0, grid_size |-> 0,
     phase |-> "none",
     backend_salt_hash |-> 0, vrf_seed |-> 0, backend_salt |-> 0, start_tile |-> 0,
     finish_tile |-> 0, fox_position |-> 0, bomb_positions |-> {}, map_nonce |-> 0,
     revealed_tiles |-> <<>>, collected_reward |-> 0, won |-> FALSE, payout |-> 0]

NoSalt == [salt |-> 0, saltHash |-> 0]

\* a request slot no handler is running in
NoRequest ==
    [pc |-> "idle", player |-> NoAddress, gameId |-> 0, tileIdx |-> 0, game |-> NoDoc,
     tileType |-> 0, reward |-> 0, status |-> 0, pending |-> FALSE]

\* revealedTilesCache.has(gameId) is false
\* no sendSyncTx call in the slot
NoAttempt == [pc |-> "idle", attempt |-> 0, nonce |-> 0, count |-> 0]

\* no reconnect scheduled
NoTimer == [pending |-> FALSE, delay |-> 0]

\* no prepare request in the slot
NoPrepare == [pc |-> "idle", player |-> NoAddress, salt |-> 0]

NoCache == [cached |-> FALSE, tiles |-> {}]

NoResponse ==
    [route |-> "none", phase |-> "none", vrf_seed |-> 0, backend_salt |-> 0,
     bomb_positions |-> {}]

SystemInit ==
    /\ games = [g \in GameIds |-> NoGame]
    /\ gameCounter = 0
    /\ vrfSeqToGame = [q \in SequenceNumbers |-> 0]
    /\ playerActiveGame = [p \in Players |-> 0]
    /\ pendingSaltHash = [p \in Players |-> 0]
    /\ revealedTiles = [g \in GameIds |-> {}]
    /\ hitBombAt = [g \in GameIds |-> 0]
    /\ foxPosition = [g \in GameIds |-> 0]
    /\ startTile = [g \in GameIds |-> 0]
    /\ finishTile = [g \in GameIds |-> 0]
    /\ bombBitmap = [g \in GameIds |-> {}]
    /\ gameGridSize = [g \in GameIds |-> 0]
    /\ gameReveals = [g \in GameIds |-> <<>>]
    /\ balance = InitialBalance
    /\ now = 0
    /\ saltCommitted = {}
    /\ vrfRequested = {}
    /\ completeArgs = [g \in GameIds |-> NoCall]
    /\ paidOut = [g \in GameIds |-> 0]
    /\ feesPaid = 0
    /\ statistics = [totalGamesPlayed |-> 0, totalVolume |-> 0, totalPayout |-> 0,
                     totalWins |-> 0, totalLosses |-> 0]
    /\ feeRecipient = Owner
    /\ dbGame = [g \in GameIds |-> NoDoc]
    /\ dbActions = [g \in GameIds |-> <<>>]
    /\ dbPendingSalts = <<>>
    /\ pendingSaltCache = [p \in Players |-> NoSalt]
    /\ eventCursor = [g \in GameIds |-> 0]
    /\ relayerTxs = {}
    /\ response = NoResponse
    /\ revealRequests = [r \in RequestIds |-> NoRequest]
    /\ pendingReveals = {}
    /\ revealedTilesCache = [g \in GameIds |-> NoCache]
    /\ rewardTiers = REWARD_TIERS
    /\ tierThresholds = TIER_THRESHOLDS
    /\ prepareRequests = [r \in PrepareIds |-> NoPrepare]
    /\ currentNonce = 0
    /\ accountNonce = 0
    /\ txAttempts = [a \in CallIds |-> NoAttempt]
    /\ isRunning = FALSE
    /\ reconnectAttempts = 0
    /\ socket = "none"
    /\ reconnectTimer = NoTimer
    /\ failedConnects = 0

Init ==
    /\ SystemInit
    /\ mapInput = NoMapInput
    /\ mapOutput = NoMap

_isTileRevealed(gameId, tileIndex) == tileIndex \in revealedTiles[gameId]

(***************************************************************************)
(* Contract functions                                                      *)
(***************************************************************************)
commitSaltHash(player, saltHash) ==
    /\ player # NoAddress
    /\ saltHash # 0
    /\ playerActiveGame[player] = 0
    /\ pendingSaltHash' = [pendingSaltHash EXCEPT ![player] = saltHash]
    /\ saltCommitted' = saltCommitted \cup {<<player, saltHash>>}
    /\ UNCHANGED <<games, gameCounter, vrfSeqToGame, playerActiveGame, revealedTiles,
                   hitBombAt, foxPosition, startTile, finishTile, bombBitmap,
                   gameGridSize, gameReveals, balance, now, vrfRequested,
                   completeArgs, paidOut, feesPaid, statistics, feeRecipient>>

cancelPendingSalt(player) ==
    /\ pendingSaltHash' = [pendingSaltHash EXCEPT ![player] = 0]
    /\ UNCHANGED <<games, gameCounter, vrfSeqToGame, playerActiveGame, revealedTiles,
                   hitBombAt, foxPosition, startTile, finishTile, bombBitmap,
                   gameGridSize, gameReveals, balance, now, saltCommitted, vrfRequested,
                   completeArgs, paidOut, feesPaid, statistics, feeRecipient>>

\* startGame without its "Salt not committed" check
RequireSaltCommitted_Skipped(saltHash) == TRUE

\* startGame: require(saltHash != bytes32(0), "Salt not committed")
RequireSaltCommitted(saltHash) == saltHash # 0

\* a startGame that leaves the commitment pending
DeletePendingSalt_Kept(pending, sender) == pending

\* startGame: delete pendingSaltHash[msg.sender]
DeletePendingSalt(pending, sender) == [pending EXCEPT ![sender] = 0]

startGame(sender, _gridSize, msgValue) ==
    LET saltHash == pendingSaltHash[sender]
        entropyFee == EntropyFee
        betAmount == msgValue - entropyFee
        maxPotentialPayout == betAmount * 10
        sequenceNumber == SequenceNumber(gameCounter)
        gameId == gameCounter + 1
    IN  /\ _isValidGridSize(_gridSize)
        /\ playerActiveGame[sender] = 0
        /\ RequireSaltCommitted(saltHash)
        /\ msgValue > entropyFee
        /\ betAmount >= minBet
        /\ betAmount <= maxBet
        /\ balance + msgValue >= maxPotentialPayout
        /\ pendingSaltHash' = DeletePendingSalt(pendingSaltHash, sender)
        /\ balance' = balance + msgValue - entropyFee
        /\ vrfRequested' = vrfRequested \cup {gameId}
        /\ gameCounter' = gameId
        /\ games' = [games EXCEPT ![gameId] =
                [player |-> sender, betAmount |-> betAmount, revealedCount |-> 0,
                 collectedReward |-> 0, vrfCommitment |-> 0, backendSaltHash |-> saltHash,
                 phase |-> WaitingVRF, won |-> FALSE, payout |-> 0, timestamp |-> now,
                 pythSeed |-> 0]]
        /\ vrfSeqToGame' = [vrfSeqToGame EXCEPT ![sequenceNumber] = gameId]
        /\ playerActiveGame' = [playerActiveGame EXCEPT ![sender] = gameId]
        /\ gameGridSize' = [gameGridSize EXCEPT ![gameId] = _gridSize]
        /\ statistics' = [statistics EXCEPT !.totalGamesPlayed = @ + 1,
                                            !.totalVolume = @ + betAmount]
        /\ UNCHANGED <<revealedTiles, hitBombAt, foxPosition, startTile, finishTile,
                       bombBitmap, gameReveals, now, saltCommitted, completeArgs,
                       paidOut, feesPaid, feeRecipient>>

\* entropyCallback without its "Invalid phase" check
entropyCallback_AnyPhase(sequenceNumber, randomNumber) ==
    LET gameId == vrfSeqToGame[sequenceNumber]
    IN  /\ gameId # 0
        /\ games' = [games EXCEPT ![gameId] =
                [@ EXCEPT !.vrfCommitment = keccak256(<<randomNumber, gameId, VERSION>>),
                          !.pythSeed = randomNumber,
                          !.phase = Active]]
        /\ UNCHANGED <<gameCounter, vrfSeqToGame, playerActiveGame, pendingSaltHash,
                       revealedTiles, hitBombAt, foxPosition, startTile, finishTile,
                       bombBitmap, gameGridSize, gameReveals, balance, now,
                       saltCommitted, vrfRequested, completeArgs, paidOut, feesPaid, statistics, feeRecipient>>

entropyCallback(sequenceNumber, randomNumber) ==
    LET gameId == vrfSeqToGame[sequenceNumber]
    IN  /\ gameId # 0
        /\ games[gameId].phase = WaitingVRF
        /\ games' = [games EXCEPT ![gameId] =
                [@ EXCEPT !.vrfCommitment = keccak256(<<randomNumber, gameId, VERSION>>),
                          !.pythSeed = randomNumber,
                          !.phase = Active]]
        /\ UNCHANGED <<gameCounter, vrfSeqToGame, playerActiveGame, pendingSaltHash,
                       revealedTiles, hitBombAt, foxPosition, startTile, finishTile,
                       bombBitmap, gameGridSize, gameReveals, balance, now,
                       saltCommitted, vrfRequested, completeArgs, paidOut, feesPaid, statistics, feeRecipient>>

setGameTiles(gameId, _startTile, _finishTile) ==
    LET gridWidth == gameGridSize[gameId]
        totalTiles == _getGridTotalTiles(gridWidth)
        bottomRowStart == totalTiles - gridWidth
    IN  /\ games[gameId].phase = Active
        /\ startTile[gameId] = 0 /\ finishTile[gameId] = 0
        /\ _startTile >= bottomRowStart /\ _startTile < totalTiles
        /\ _finishTile < gridWidth
        /\ startTile' = [startTile EXCEPT ![gameId] = _startTile]
        /\ finishTile' = [finishTile EXCEPT ![gameId] = _finishTile]
        /\ foxPosition' = [foxPosition EXCEPT ![gameId] = _startTile]
        /\ revealedTiles' = [revealedTiles EXCEPT ![gameId] = @ \cup {_startTile}]
        /\ UNCHANGED <<games, gameCounter, vrfSeqToGame, playerActiveGame, pendingSaltHash,
                       hitBombAt, bombBitmap, gameGridSize, gameReveals, balance, now,
                       saltCommitted, vrfRequested, completeArgs, paidOut, feesPaid, statistics, feeRecipient>>

\* revealTile, its require statements
revealTileRequires(player, gameId, tileIndex, tileType) ==
    LET game == games[gameId]
        gridWidth == gameGridSize[gameId]
        totalTiles == _getGridTotalTiles(gridWidth)
        currentRow == foxPosition[gameId] \div gridWidth
        newRow == tileIndex \div gridWidth
    IN  /\ game.player = player
        /\ game.phase = Active
        /\ tileIndex < totalTiles
        /\ ~_isTileRevealed(gameId, tileIndex)
        /\ tileType <= 2
        /\ _isAdjacent4Way(foxPosition[gameId], tileIndex, gridWidth)
        /\ newRow <= currentRow

revealTile(player, gameId, tileIndex, tileType, reward) ==
    LET game == games[gameId]
    IN  /\ revealTileRequires(player, gameId, tileIndex, tileType)
        /\ gameReveals' = [gameReveals EXCEPT ![gameId] =
                Append(@, [tileIndex |-> tileIndex, tileType |-> tileType, reward |-> reward])]
        /\ revealedTiles' = [revealedTiles EXCEPT ![gameId] = @ \cup {tileIndex}]
        /\ foxPosition' = [foxPosition EXCEPT ![gameId] = tileIndex]
        /\ IF tileType = Bomb
           THEN /\ hitBombAt' = [hitBombAt EXCEPT ![gameId] = tileIndex + 1]
                /\ games' = [games EXCEPT ![gameId].revealedCount = @ + 1]
           ELSE IF tileIndex = finishTile[gameId]
           THEN /\ games' = [games EXCEPT ![gameId].revealedCount = @ + 1]
                /\ UNCHANGED hitBombAt
           ELSE IF tileType = Reward
           THEN /\ games' = [games EXCEPT ![gameId].revealedCount = @ + 1,
                                          ![gameId].collectedReward = @ + reward]
                /\ UNCHANGED hitBombAt
           ELSE /\ games' = [games EXCEPT ![gameId].revealedCount = @ + 1]
                /\ UNCHANGED hitBombAt
        /\ UNCHANGED <<gameCounter, vrfSeqToGame, playerActiveGame, pendingSaltHash,
                       startTile, finishTile, bombBitmap, gameGridSize, balance, now,
                       saltCommitted, vrfRequested, completeArgs, paidOut, feesPaid, statistics, feeRecipient>>

\* completeGame without its "Game not finished" check
RequireFinished_Skipped(hitBomb, reachedFinish) == TRUE

\* completeGame: require(hitBomb || reachedFinish, "Game not finished")
RequireFinished(hitBomb, reachedFinish) == hitBomb \/ reachedFinish

\* a settlement that leaves the player's active game in place
ClearActiveGame_Kept(activeGames, player) == activeGames

\* completeGame and cancelGame: playerActiveGame[player] = 0
ClearActiveGame(activeGames, player) == [activeGames EXCEPT ![player] = 0]

\* completeGame without the salt check
VerifySalt_Skipped(backendSaltHash, backendSalt) == TRUE

\* completeGame, "VERIFY SALT"
VerifySalt(backendSaltHash, backendSalt) ==
    backendSaltHash = keccak256(<<backendSalt>>)

\* the loop body without its "Tile is not a bomb" branch
VerifyReveal_NoElse(reveal, calculatedBombs, finalSeed, gameId, betAmount) ==
    LET isBomb == reveal.tileIndex \in calculatedBombs
    IN  /\ isBomb => reveal.tileType = Bomb
        /\ reveal.tileType = Reward =>
              reveal.reward = _calculateReward(finalSeed, gameId, reveal.tileIndex, betAmount)

\* completeGame, the body of the loop of "VERIFY ALL REVEALED TILES"
VerifyReveal(reveal, calculatedBombs, finalSeed, gameId, betAmount) ==
    LET isBomb == reveal.tileIndex \in calculatedBombs
    IN  /\ IF isBomb THEN reveal.tileType = Bomb ELSE reveal.tileType # Bomb
        /\ reveal.tileType = Reward =>
              reveal.reward = _calculateReward(finalSeed, gameId, reveal.tileIndex, betAmount)

VerifyReveals(reveals, calculatedBombs, finalSeed, gameId, betAmount) ==
    \A i \in 1..Len(reveals) :
        VerifyReveal(reveals[i], calculatedBombs, finalSeed, gameId, betAmount)

\* completeGame without the start and finish tile checks
VerifyTiles_Skipped(_startTile, _finishTile, expectedStart, expectedFinish) == TRUE

\* completeGame, "VERIFY START TILE" and "VERIFY FINISH TILE"
VerifyTiles(_startTile, _finishTile, expectedStart, expectedFinish) ==
    /\ _startTile = expectedStart
    /\ _finishTile = expectedFinish

\* a house fee rounded up instead of down
HouseFee_RoundedUp(grossPayout) ==
    (grossPayout * FEE_PERCENT + PRECISION - 1) \div PRECISION

\* completeGame, the house fee of a won game
HouseFee(grossPayout) == (grossPayout * FEE_PERCENT) \div PRECISION

\* completeGame, its require statements; the transfers of a win need the balance
completeGameRequires(gameId, backendSalt, nonce) ==
    LET game == games[gameId]
        hitBomb == hitBombAt[gameId] > 0
        reachedFinish == foxPosition[gameId] = finishTile[gameId]
        gridWidth == gameGridSize[gameId]
        finalSeed == keccak256(<<game.pythSeed, backendSalt, gameId, VERSION>>)
        totalTiles == _getGridTotalTiles(gridWidth)
        bottomRowStart == totalTiles - gridWidth
        startHash == keccak256(<<finalSeed, gameId, StrCode("start"), VERSION>>)
        expectedStart == bottomRowStart + (startHash % gridWidth)
        finishHash == keccak256(<<finalSeed, gameId, StrCode("finish"), VERSION>>)
        expectedFinish == finishHash % gridWidth
        calculatedBombs == _calculateBombs(finalSeed, gameId, startTile[gameId],
                                           finishTile[gameId], gridWidth,
                                           _getBombCount(gridWidth), nonce)
        grossPayout == game.collectedReward
        houseFee == HouseFee(grossPayout)
        netPayout == grossPayout - houseFee
    IN  /\ game.phase = Active
        /\ RequireFinished(hitBomb, reachedFinish)
        /\ VerifySalt(game.backendSaltHash, backendSalt)
        /\ VerifyTiles(startTile[gameId], finishTile[gameId], expectedStart, expectedFinish)
        /\ VerifyReveals(gameReveals[gameId], calculatedBombs, finalSeed, gameId,
                         game.betAmount)
        /\ hitBomb \/ balance >= netPayout
                              + (IF feeRecipient # NoAddress THEN houseFee ELSE 0)

completeGame(gameId, backendSalt, nonce) ==
    LET game == games[gameId]
        hitBomb == hitBombAt[gameId] > 0
        reachedFinish == foxPosition[gameId] = finishTile[gameId]
        gridWidth == gameGridSize[gameId]
        finalSeed == keccak256(<<game.pythSeed, backendSalt, gameId, VERSION>>)
        totalTiles == _getGridTotalTiles(gridWidth)
        bottomRowStart == totalTiles - gridWidth
        startHash == keccak256(<<finalSeed, gameId, StrCode("start"), VERSION>>)
        expectedStart == bottomRowStart + (startHash % gridWidth)
        finishHash == keccak256(<<finalSeed, gameId, StrCode("finish"), VERSION>>)
        expectedFinish == finishHash % gridWidth
        calculatedBombs == _calculateBombs(finalSeed, gameId, startTile[gameId],
                                           finishTile[gameId], gridWidth,
                                           _getBombCount(gridWidth), nonce)
        grossPayout == game.collectedReward
        houseFee == HouseFee(grossPayout)
        netPayout == grossPayout - houseFee
    IN  /\ completeGameRequires(gameId, backendSalt, nonce)
        /\ bombBitmap' = [bombBitmap EXCEPT ![gameId] = calculatedBombs]
        /\ playerActiveGame' = ClearActiveGame(playerActiveGame, game.player)
        /\ completeArgs' = [completeArgs EXCEPT ![gameId] =
                [called |-> TRUE, backendSalt |-> backendSalt, nonce |-> nonce]]
        /\ IF hitBomb
           THEN /\ games' = [games EXCEPT ![gameId] =
                        [@ EXCEPT !.phase = Completed, !.won = FALSE, !.payout = 0,
                                  !.collectedReward = 0]]
                /\ statistics' = [statistics EXCEPT !.totalLosses = @ + 1]
                /\ UNCHANGED <<balance, paidOut, feesPaid>>
           ELSE /\ balance >= netPayout + (IF feeRecipient # NoAddress THEN houseFee ELSE 0)
                /\ games' = [games EXCEPT ![gameId] =
                        [@ EXCEPT !.phase = Completed, !.won = TRUE, !.payout = netPayout]]
                /\ balance' = IF houseFee > 0 /\ feeRecipient # NoAddress
                              THEN balance - netPayout - houseFee
                              ELSE balance - netPayout
                /\ paidOut' = [paidOut EXCEPT ![gameId] = @ + netPayout]
                /\ feesPaid' = IF houseFee > 0 /\ feeRecipient # NoAddress
                               THEN feesPaid + houseFee ELSE feesPaid
                /\ statistics' = [statistics EXCEPT !.totalWins = @ + 1,
                                                    !.totalPayout = @ + netPayout]
        /\ UNCHANGED <<gameCounter, vrfSeqToGame, pendingSaltHash, revealedTiles,
                       hitBombAt, foxPosition, startTile, finishTile, gameGridSize,
                       gameReveals, now, saltCommitted, vrfRequested, feeRecipient>>

\* setFeeRecipient, onlyOwner
setFeeRecipient(sender, _newRecipient) ==
    /\ sender = Owner
    /\ feeRecipient' = _newRecipient
    /\ UNCHANGED <<games, gameCounter, vrfSeqToGame, playerActiveGame, pendingSaltHash,
                   revealedTiles, hitBombAt, foxPosition, startTile, finishTile,
                   bombBitmap, gameGridSize, gameReveals, balance, now, saltCommitted,
                   vrfRequested, completeArgs, paidOut, feesPaid, statistics>>

\* cancelGame without its "Already completed" check
RequireNotCompleted_Skipped(phase) == TRUE

\* cancelGame, "Already completed"
RequireNotCompleted(phase) == phase # Completed

\* cancelGame's requires; the refund's call fails when the balance is short of it
cancelGameRequires(sender, gameId) ==
    LET game == games[gameId]
        isAdmin == sender = Owner \/ sender = Relayer
        isPlayerTimeout == sender = game.player /\ now > game.timestamp
    IN  /\ game.player # NoAddress
        /\ RequireNotCompleted(game.phase)
        /\ isAdmin \/ isPlayerTimeout
        /\ balance >= game.betAmount

cancelGame(sender, gameId) ==
    LET game == games[gameId]
        player == game.player
        betAmount == game.betAmount
    IN  /\ cancelGameRequires(sender, gameId)
        /\ playerActiveGame' = ClearActiveGame(playerActiveGame, player)
        /\ games' = [games EXCEPT ![gameId] =
                [@ EXCEPT !.phase = Completed, !.won = FALSE, !.payout = betAmount]]
        /\ balance' = balance - betAmount
        /\ paidOut' = [paidOut EXCEPT ![gameId] = @ + betAmount]
        /\ UNCHANGED <<gameCounter, vrfSeqToGame, pendingSaltHash, revealedTiles,
                       hitBombAt, foxPosition, startTile, finishTile, bombBitmap,
                       gameGridSize, gameReveals, now, saltCommitted, vrfRequested,
                       completeArgs, feesPaid, statistics, feeRecipient>>

\* withdraw, onlyOwner: any amount up to the whole balance
withdraw(sender, amount) ==
    /\ sender = Owner
    /\ amount > 0
    /\ balance >= amount
    /\ balance' = balance - amount
    /\ UNCHANGED <<games, gameCounter, vrfSeqToGame, playerActiveGame, pendingSaltHash,
                   revealedTiles, hitBombAt, foxPosition, startTile, finishTile,
                   bombBitmap, gameGridSize, gameReveals, now, saltCommitted,
                   vrfRequested, completeArgs, paidOut, feesPaid, statistics, feeRecipient>>

\* setRewardTiers, onlyOwner: replaces both tables, whatever games are running
setRewardTiers(sender, _tiers, _thresholds) ==
    /\ sender = Owner
    /\ _thresholds[7] = 10000
    /\ rewardTiers' = _tiers
    /\ tierThresholds' = _thresholds
    /\ UNCHANGED contractVars

(***************************************************************************)
(* The callers: the relayer (backend), the players, the VRF provider       *)
(***************************************************************************)
\* the (start, finish) pairs the relayer may send: computed from the game's
\* VRF output and one of the salts
TileInputs(gameId) ==
    {selectStartAndFinish(calculateFinalSeed(games[gameId].pythSeed, s, gameId),
                          gameId, gameGridSize[gameId]) : s \in Salts}

CommitSaltHash == \E player \in Players, saltHash \in SaltHashInputs :
                      /\ gameCounter < MaxGames
                      /\ commitSaltHash(player, saltHash)
                      /\ UNCHANGED <<backendVars, mapVars, revealVars, tierVars, serviceVars>>

CancelPendingSalt == \E player \in Players :
                         /\ cancelPendingSalt(player)
                         /\ UNCHANGED <<backendVars, mapVars, revealVars, tierVars, serviceVars>>

StartGame == \E sender \in Players, _gridSize \in GridInputs, msgValue \in MsgValues :
                 /\ gameCounter < MaxGames
                 /\ startGame(sender, _gridSize, msgValue)
                 /\ UNCHANGED <<backendVars, mapVars, revealVars, tierVars, serviceVars>>

EntropyCallback == \E sequenceNumber \in SequenceNumbers, randomNumber \in PythSeeds :
                       /\ entropyCallback(sequenceNumber, randomNumber)
                       /\ UNCHANGED <<backendVars, mapVars, revealVars, tierVars, serviceVars>>

SetGameTiles == \E gameId \in GameIds :
                    /\ games[gameId].phase = Active
                    /\ \E tiles \in TileInputs(gameId) :
                           setGameTiles(gameId, tiles.startTile, tiles.finishTile)
                    /\ UNCHANGED <<backendVars, mapVars, revealVars, tierVars, serviceVars>>

RevealTile == \E player \in Players \cup {Stranger}, gameId \in GameIds,
                 tileIndex \in 0..25, claim \in ClaimInputs :
                  /\ games[gameId].revealedCount < MaxReveals
                  /\ revealTile(player, gameId, tileIndex, claim[1], claim[2])
                  /\ UNCHANGED <<backendVars, mapVars, revealVars, tierVars, serviceVars>>

CompleteGame == \E gameId \in GameIds, backendSalt \in Salts, nonce \in 0..MaxNonce :
                    /\ completeGame(gameId, backendSalt, nonce)
                    /\ UNCHANGED <<backendVars, mapVars, revealVars, tierVars, serviceVars>>

CancelGame == \E sender \in Senders, gameId \in GameIds :
                  /\ cancelGame(sender, gameId)
                  /\ UNCHANGED <<backendVars, mapVars, revealVars, tierVars, serviceVars>>

SetFeeRecipient == \E sender \in Senders, _newRecipient \in {Owner, NoAddress} :
                       /\ setFeeRecipient(sender, _newRecipient)
                       /\ UNCHANGED <<backendVars, mapVars, revealVars, tierVars, serviceVars>>

Next ==
    \/ CommitSaltHash
    \/ CancelPendingSalt
    \/ StartGame
    \/ EntropyCallback
    \/ SetGameTiles
    \/ RevealTile
    \/ CompleteGame
    \/ CancelGame
    \/ SetFeeRecipient

Spec == Init /\ [][Next]_vars

(***************************************************************************)
(* The lifecycle of several games of one player: MaxGameId games in a row, *)
(* commitments of both salts, and time passing between the calls, so that  *)
(* the player's timeout in cancelGame is reached.  Each game has at most   *)
(* LifecycleMaxReveals reveals.                                            *)
(***************************************************************************)
MaxTime == 1
LifecycleMaxReveals == 1
LifecycleSaltHashes == {keccak256(<<s>>) : s \in Salts}
LifecyclePythSeeds == {41}
LifecycleClaims == {<<Empty, 0>>, <<Bomb, 0>>}

\* a block later than one hour after the previous one
Tick ==
    /\ now < MaxTime
    /\ now' = now + 1
    /\ UNCHANGED <<games, gameCounter, vrfSeqToGame, playerActiveGame, pendingSaltHash,
                   revealedTiles, hitBombAt, foxPosition, startTile, finishTile,
                   bombBitmap, gameGridSize, gameReveals, balance, saltCommitted,
                   vrfRequested, completeArgs, paidOut, feesPaid, statistics, feeRecipient>>
    /\ UNCHANGED <<backendVars, mapVars, revealVars, tierVars, serviceVars>>

LifecycleCommitSaltHash == \E player \in Players, saltHash \in LifecycleSaltHashes :
                               /\ gameCounter < MaxGameId
                               /\ commitSaltHash(player, saltHash)
                               /\ UNCHANGED <<backendVars, mapVars, revealVars, tierVars, serviceVars>>

LifecycleStartGame == \E sender \in Players :
                          /\ gameCounter < MaxGameId
                          /\ startGame(sender, 5, EntropyFee + 100)
                          /\ UNCHANGED <<backendVars, mapVars, revealVars, tierVars, serviceVars>>

LifecycleEntropyCallback ==
    \E sequenceNumber \in SequenceNumbers, randomNumber \in LifecyclePythSeeds :
        /\ entropyCallback(sequenceNumber, randomNumber)
        /\ UNCHANGED <<backendVars, mapVars, revealVars, tierVars, serviceVars>>

LifecycleRevealTile == \E player \in Players, gameId \in GameIds, tileIndex \in 0..24,
                          claim \in LifecycleClaims :
                           /\ games[gameId].revealedCount < LifecycleMaxReveals
                           /\ revealTile(player, gameId, tileIndex, claim[1], claim[2])
                           /\ UNCHANGED <<backendVars, mapVars, revealVars, tierVars, serviceVars>>

LifecycleNext ==
    \/ LifecycleCommitSaltHash
    \/ CancelPendingSalt
    \/ LifecycleStartGame
    \/ LifecycleEntropyCallback
    \/ SetGameTiles
    \/ LifecycleRevealTile
    \/ CompleteGame
    \/ CancelGame
    \/ Tick

LifecycleSpec == Init /\ [][LifecycleNext]_vars

(***************************************************************************)
(* Games whose VRF callback may never arrive, with the owner's withdrawals *)
(***************************************************************************)
\* the amounts the owner withdraws
WithdrawAmounts == {100, InitialBalance}

Withdraw == \E sender \in Senders, amount \in WithdrawAmounts :
                /\ withdraw(sender, amount)
                /\ UNCHANGED <<backendVars, mapVars, revealVars, tierVars, serviceVars>>

RefundNext ==
    \/ LifecycleCommitSaltHash
    \/ LifecycleStartGame
    \/ LifecycleEntropyCallback
    \/ CancelGame
    \/ Withdraw
    \/ Tick

RefundSpec == Init /\ [][RefundNext]_vars

(***************************************************************************)
(* The contract with an owner who replaces the reward tables               *)
(***************************************************************************)
\* the tables the owner sets: the constructor's, a table whose lowest tier is
\* doubled, thresholds whose first tier is wider, and thresholds the require
\* rejects
TierTables == {REWARD_TIERS, <<2000, 2000, 5000, 10000, 20000, 50000, 100000>>}
ThresholdTables == {TIER_THRESHOLDS, <<5000, 6000, 8000, 9200, 9700, 9950, 10000>>,
                    <<3500, 6000, 8000, 9200, 9700, 9950, 9999>>}

SetRewardTiers == \E sender \in {Owner, Stranger}, _tiers \in TierTables,
                     _thresholds \in ThresholdTables :
                      /\ setRewardTiers(sender, _tiers, _thresholds)
                      /\ UNCHANGED <<backendVars, mapVars, revealVars, serviceVars>>

TierNext ==
    \/ CommitSaltHash
    \/ StartGame
    \/ EntropyCallback
    \/ SetGameTiles
    \/ RevealTile
    \/ CompleteGame
    \/ SetRewardTiers

TierSpec == Init /\ [][TierNext]_vars

(***************************************************************************)
(* The backend server: the database, the event listener and the read       *)
(* routes.  The chain is its environment: a handler receives the event's   *)
(* arguments as inputs, in the order in which the contract emits them for  *)
(* a game, and a transaction it submits is recorded in relayerTxs.         *)
(***************************************************************************)
BackendMaxReveals == 2
BackendGridSizes == {5}

\* db.getGame
getGame(gameId) == dbGame[gameId]

\* db.getActiveGame: the game ids of the documents the query matches
getActiveGame(playerAddress) ==
    {g \in GameIds : /\ dbGame[g].exists
                     /\ dbGame[g].player = playerAddress
                     /\ dbGame[g].phase \in {"waiting_vrf", "active"}}

\* db.getGameActions
getGameActions(gameId) == dbActions[gameId]

RECURSIVE RemoveSalt(_, _)
RemoveSalt(salts, saltHash) ==
    IF salts = <<>> THEN <<>>
    ELSE IF Head(salts).salt_hash = saltHash THEN RemoveSalt(Tail(salts), saltHash)
    ELSE <<Head(salts)>> \o RemoveSalt(Tail(salts), saltHash)

\* db.deletePendingSalt
deletePendingSalt(salts, saltHash) == RemoveSalt(salts, saltHash)

\* db.savePendingSalt: insert, or on a duplicate salt_hash update with a new created_at
savePendingSalt(salts, saltHash, salt, player) ==
    Append(RemoveSalt(salts, saltHash),
           [salt_hash |-> saltHash, salt |-> salt, player |-> player])

\* db.getPendingSaltByHash; NoSalt when there is none
getPendingSaltByHash(saltHash) ==
    LET found == {i \in 1..Len(dbPendingSalts) : dbPendingSalts[i].salt_hash = saltHash}
    IN  IF found = {} THEN NoSalt
        ELSE LET i == CHOOSE k \in found : TRUE
             IN  [salt |-> dbPendingSalts[i].salt, saltHash |-> saltHash]

\* db.getPendingSaltByPlayer: the newest one of the player
getPendingSaltByPlayer(playerAddress) ==
    LET found == {i \in 1..Len(dbPendingSalts) : dbPendingSalts[i].player = playerAddress}
    IN  IF found = {} THEN NoSalt
        ELSE LET i == CHOOSE k \in found : \A m \in found : m <= k
             IN  [salt |-> dbPendingSalts[i].salt, saltHash |-> dbPendingSalts[i].salt_hash]

\* saltCallbacks.getSaltByHash: the cache first, then the database
getSaltByHash(saltHash) ==
    LET cached == {p \in Players : pendingSaltCache[p].saltHash = saltHash}
    IN  IF cached # {} THEN pendingSaltCache[CHOOSE p \in cached : TRUE]
        ELSE getPendingSaltByHash(saltHash)

\* saltCallbacks.getSaltForPlayer: the cache first, then the database
getSaltForPlayer(playerAddress) ==
    IF pendingSaltCache[playerAddress] # NoSalt THEN pendingSaltCache[playerAddress]
    ELSE getPendingSaltByPlayer(playerAddress)

\* what both callbacks delete once a salt is found
SaltTaken(saltData) ==
    /\ pendingSaltCache' = [p \in Players |->
            IF pendingSaltCache[p].saltHash = saltData.saltHash THEN NoSalt
            ELSE pendingSaltCache[p]]
    /\ dbPendingSalts' = deletePendingSalt(dbPendingSalts, saltData.saltHash)

\* a broadcast that carries neither seeds nor trap positions
Broadcast(type, phase) ==
    [route |-> type, phase |-> phase, vrf_seed |-> 0, backend_salt |-> 0,
     bomb_positions |-> {}]

\* POST /api/game/prepare, with the commitSaltHash transaction accepted
prepare(player, backendSalt, gridWidth) ==
    LET backendSaltHash == keccak256(<<backendSalt>>)
    IN  /\ gridWidth \in {5, 6, 7}
        /\ getActiveGame(player) = {}
        /\ relayerTxs' = relayerTxs \cup {<<"commitSaltHash", player, backendSaltHash>>}
        /\ dbPendingSalts' = savePendingSalt(dbPendingSalts, backendSaltHash, backendSalt,
                                             player)
        /\ pendingSaltCache' = [pendingSaltCache EXCEPT ![player] =
                [salt |-> backendSalt, saltHash |-> backendSaltHash]]
        /\ response' = Broadcast("prepare", "none")
        /\ UNCHANGED <<dbGame, dbActions, eventCursor>>

\* EventListener.handleGameStarted; backendSaltHash is what contract.games() returned,
\* 0 when the call failed
handleGameStarted(gameId, player, betAmount, gridSize, backendSaltHash) ==
    /\ dbGame' = [dbGame EXCEPT ![gameId] =
            [@ EXCEPT !.exists = TRUE, !.player = player, !.bet_amount = betAmount,
                      !.grid_size = gridSize,
                      !.revealed_tiles = <<>>, !.phase = "waiting_vrf", !.won = FALSE,
                      !.backend_salt_hash = backendSaltHash]]
    /\ response' = Broadcast("gameStarted", "waiting_vrf")
    /\ UNCHANGED <<dbActions, dbPendingSalts, pendingSaltCache, relayerTxs>>

\* EventListener.handleVRFReceived
handleVRFReceived(gameId, pythSeed) ==
    LET game == getGame(gameId)
        byHash == IF game.backend_salt_hash # 0 THEN getSaltByHash(game.backend_salt_hash)
                  ELSE NoSalt
        saltData == IF byHash # NoSalt THEN byHash ELSE getSaltForPlayer(game.player)
        backendSalt == saltData.salt
        finalSeed == calculateFinalSeed(pythSeed, backendSalt, gameId)
        gridWidth == IF game.grid_size = 0 THEN 5 ELSE game.grid_size
        tiles == selectStartAndFinish(finalSeed, gameId, gridWidth)
        map == placeBombsWithNonce(finalSeed, gameId, tiles.startTile, tiles.finishTile,
                                   gridWidth)
    IN  IF ~game.exists \/ saltData = NoSalt
        THEN UNCHANGED <<dbGame, dbActions, dbPendingSalts, pendingSaltCache, relayerTxs,
                         response>>
        ELSE /\ SaltTaken(saltData)
             /\ dbGame' = [dbGame EXCEPT ![gameId] =
                    [@ EXCEPT !.vrf_seed = pythSeed, !.backend_salt = backendSalt,
                              !.start_tile = tiles.startTile,
                              !.finish_tile = tiles.finishTile,
                              !.fox_position = tiles.startTile,
                              !.bomb_positions = map.bombSet, !.map_nonce = map.nonce,
                              !.revealed_tiles = <<tiles.startTile>>]]
             /\ relayerTxs' = relayerTxs \cup
                    {<<"setGameTiles", gameId, tiles.startTile, tiles.finishTile>>}
             /\ UNCHANGED <<dbActions, response>>

\* EventListener.handleGameReady
handleGameReady(gameId) ==
    /\ dbGame' = [dbGame EXCEPT ![gameId] =
            IF @.exists THEN [@ EXCEPT !.phase = "active"] ELSE @]
    /\ response' = Broadcast("vrfReceived", dbGame'[gameId].phase)
    /\ UNCHANGED <<dbActions, dbPendingSalts, pendingSaltCache, relayerTxs>>

\* EventListener.handleTileRevealed
handleTileRevealed(gameId, tileIndex, tileType, totalCollected) ==
    /\ dbGame' = [dbGame EXCEPT ![gameId] =
            IF @.exists THEN [@ EXCEPT !.revealed_tiles = Append(@, tileIndex),
                                       !.collected_reward = totalCollected]
            ELSE @]
    /\ dbActions' = [dbActions EXCEPT ![gameId] =
            Append(@, [tile_index |-> tileIndex, tile_type |-> tileType])]
    /\ response' = Broadcast("tileRevealed", dbGame'[gameId].phase)
    /\ UNCHANGED <<dbPendingSalts, pendingSaltCache, relayerTxs>>

\* EventListener.handleGameCompleted, with db.completeGame
handleGameCompleted(gameId, won, payout) ==
    LET game == getGame(gameId)
        bombPositions == IF game.exists THEN game.bomb_positions ELSE {}
    IN  /\ dbGame' = [dbGame EXCEPT ![gameId] =
                IF @.exists THEN [@ EXCEPT !.phase = "completed", !.won = won,
                                           !.payout = payout]
                ELSE @]
        /\ response' = [Broadcast("gameCompleted", dbGame'[gameId].phase)
                            EXCEPT !.bomb_positions = bombPositions]
        /\ UNCHANGED <<dbActions, dbPendingSalts, pendingSaltCache, relayerTxs>>

\* GET /api/game/active/:address
GetActiveGame(address) ==
    /\ IF getActiveGame(address) = {}
       THEN response' = Broadcast("active", "none")
       ELSE LET game == dbGame[CHOOSE g \in getActiveGame(address) : TRUE]
                masked == game.phase # "completed"
            IN  response' =
                    [route |-> "active", phase |-> game.phase,
                     vrf_seed |-> IF masked THEN 0 ELSE game.vrf_seed,
                     backend_salt |-> IF masked THEN 0 ELSE game.backend_salt,
                     bomb_positions |-> game.bomb_positions]
    /\ UNCHANGED <<dbGame, dbActions, dbPendingSalts, pendingSaltCache, eventCursor,
                   relayerTxs>>

\* GET /api/game/:gameId
GetGame(gameId) ==
    LET game == getGame(gameId)
    IN  /\ IF ~game.exists
           THEN response' = Broadcast("notFound", "none")
           ELSE response' =
                    [route |-> "game", phase |-> game.phase, vrf_seed |-> game.vrf_seed,
                     backend_salt |-> game.backend_salt,
                     bomb_positions |-> game.bomb_positions]
        /\ UNCHANGED <<dbGame, dbActions, dbPendingSalts, pendingSaltCache, eventCursor,
                       relayerTxs>>

\* GET /api/game/:gameId/actions: the response is the list of action documents
GetGameActions(gameId) ==
    /\ response' = Broadcast("actions", dbGame[gameId].phase)
    /\ UNCHANGED <<dbGame, dbActions, dbPendingSalts, pendingSaltCache, eventCursor,
                   relayerTxs>>

(***************************************************************************)
(* The backend with its callers: players, and the contract's event stream  *)
(***************************************************************************)
\* the tile of the game's latest TileRevealed event, the start tile before any
LastTile(gameId) ==
    LET tiles == dbGame[gameId].revealed_tiles
    IN  IF tiles = <<>> THEN dbGame[gameId].start_tile ELSE tiles[Len(tiles)]

Prepare == \E player \in Players, backendSalt \in Salts, gridWidth \in BackendGridSizes :
               /\ \A g \in GameIds : eventCursor[g] = 0
               /\ prepare(player, backendSalt, gridWidth)
               /\ UNCHANGED <<contractVars, mapVars, revealVars, tierVars, serviceVars>>

\* GameStarted follows a commitment the relayer made for the player
GameStarted == \E gameId \in GameIds, player \in Players, gridSize \in BackendGridSizes :
                   /\ gameId <= MaxGames
                   /\ eventCursor[gameId] = 0
                   /\ pendingSaltCache[player] # NoSalt
                   /\ \E backendSaltHash \in {0, pendingSaltCache[player].saltHash} :
                          handleGameStarted(gameId, player, minBet, gridSize, backendSaltHash)
                   /\ eventCursor' = [eventCursor EXCEPT ![gameId] = 1]
                   /\ UNCHANGED <<contractVars, mapVars, revealVars, tierVars, serviceVars>>

VRFReceived == \E gameId \in GameIds, pythSeed \in PythSeeds :
                   /\ eventCursor[gameId] = 1
                   /\ handleVRFReceived(gameId, pythSeed)
                   /\ eventCursor' = [eventCursor EXCEPT ![gameId] = 2]
                   /\ UNCHANGED <<contractVars, mapVars, revealVars, tierVars, serviceVars>>

\* GameReady is emitted by the relayer's setGameTiles transaction
GameReady == \E gameId \in GameIds :
                 /\ eventCursor[gameId] = 2
                 /\ \E tx \in relayerTxs : tx[1] = "setGameTiles" /\ tx[2] = gameId
                 /\ handleGameReady(gameId)
                 /\ eventCursor' = [eventCursor EXCEPT ![gameId] = 3]
                 /\ UNCHANGED <<contractVars, mapVars, revealVars, tierVars, serviceVars>>

\* the reward of a tile claimed as Reward in the events BackendSpec delivers
BackendReward == 20

\* TileRevealed carries a tile that revealTile accepts after the previous one
TileRevealed == \E gameId \in GameIds, tileIndex \in 0..24,
                   tileType \in {Empty, Bomb, Reward} :
                    /\ eventCursor[gameId] = 3
                    /\ Len(dbActions[gameId]) < BackendMaxReveals
                    /\ _isAdjacent4Way(LastTile(gameId), tileIndex, dbGame[gameId].grid_size)
                    /\ \A i \in 1..Len(dbActions[gameId]) :
                           dbActions[gameId][i].tile_index # tileIndex
                    /\ handleTileRevealed(gameId, tileIndex, tileType,
                                          dbGame[gameId].collected_reward +
                                              (IF tileType = Reward THEN BackendReward ELSE 0))
                    /\ UNCHANGED <<eventCursor, contractVars, mapVars, revealVars, tierVars, serviceVars>>

GameCompleted == \E gameId \in GameIds, won \in BOOLEAN :
                     /\ eventCursor[gameId] = 3
                     /\ Len(dbActions[gameId]) > 0
                     /\ handleGameCompleted(gameId, won,
                            IF won THEN dbGame[gameId].collected_reward -
                                        HouseFee(dbGame[gameId].collected_reward)
                            ELSE 0)
                     /\ eventCursor' = [eventCursor EXCEPT ![gameId] = 4]
                     /\ UNCHANGED <<contractVars, mapVars, revealVars, tierVars, serviceVars>>

ReadActiveGame == \E address \in Players : GetActiveGame(address) /\ UNCHANGED <<contractVars, mapVars, revealVars, tierVars, serviceVars>>

ReadGame == \E gameId \in GameIds : GetGame(gameId) /\ UNCHANGED <<contractVars, mapVars, revealVars, tierVars, serviceVars>>

ReadGameActions == \E gameId \in GameIds : GetGameActions(gameId) /\ UNCHANGED <<contractVars, mapVars, revealVars, tierVars, serviceVars>>

BackendNext ==
    \/ Prepare
    \/ GameStarted
    \/ VRFReceived
    \/ GameReady
    \/ TileRevealed
    \/ GameCompleted
    \/ ReadActiveGame
    \/ ReadGame
    \/ ReadGameActions

BackendSpec == Init /\ [][BackendNext]_vars

(***************************************************************************)
(* The Map Generator as a function of its arguments: the final seed, the   *)
(* game id and the grid width are drawn from bounded sets, and the one     *)
(* step computes the map as handleVRFReceived does.                        *)
(***************************************************************************)
MaxSeed == 99
MapSeeds == 0..MaxSeed
MapGridWidths == {5, 6, 7}
MapInputs == [finalSeed : MapSeeds, gameId : GameIds, gridWidth : MapGridWidths]

\* selectStartAndFinish followed by placeBombsWithNonce
generateMap(finalSeed, gameId, gridWidth) ==
    LET tiles == selectStartAndFinish(finalSeed, gameId, gridWidth)
        placed == placeBombsWithNonce(finalSeed, gameId, tiles.startTile, tiles.finishTile,
                                      gridWidth)
    IN  [startTile |-> tiles.startTile, finishTile |-> tiles.finishTile,
         bombSet |-> placed.bombSet, nonce |-> placed.nonce, generated |-> TRUE]

GenerateMap ==
    /\ ~mapOutput.generated
    /\ mapOutput' = generateMap(mapInput.finalSeed, mapInput.gameId, mapInput.gridWidth)
    /\ UNCHANGED <<mapInput, contractVars, backendVars, revealVars, tierVars, serviceVars>>

MapInit ==
    /\ SystemInit
    /\ mapInput \in MapInputs
    /\ mapOutput = NoMap

MapNext == GenerateMap

MapSpec == MapInit /\ [][MapNext]_vars

(***************************************************************************)
(* What a finalised game was verified against                              *)
(***************************************************************************)
\* the final seed of the completeGame call that finalised the game
AcceptedFinalSeed(g) ==
    keccak256(<<games[g].pythSeed, completeArgs[g].backendSalt, g, VERSION>>)

\* the trap set recomputed from that final seed and the supplied nonce
AcceptedBombs(g) ==
    _calculateBombs(AcceptedFinalSeed(g), g, startTile[g], finishTile[g], gameGridSize[g],
                    _getBombCount(gameGridSize[g]), completeArgs[g].nonce)

\* the map the Map Generator derives from that final seed
GeneratedMap(g) ==
    placeBombsWithNonce(AcceptedFinalSeed(g), g, startTile[g], finishTile[g], gameGridSize[g])

Finalised(g) == completeArgs[g].called

(***************************************************************************)
(* C1: completeGame finalises a game only if keccak256(backendSalt) equals *)
(* the backendSaltHash bound to the game; a call with any other salt is    *)
(* rejected, so no game is ever finalised with one.                        *)
(***************************************************************************)
C1_SaltSoundness ==
    \A g \in GameIds :
        Finalised(g) =>
            /\ games[g].phase = Completed
            /\ keccak256(<<completeArgs[g].backendSalt>>) = games[g].backendSaltHash

\* a game was finalised by completeGame as won
C1_Witness ==
    \E g \in GameIds : Finalised(g) /\ games[g].won

(***************************************************************************)
(* C2: in a game accepted by completeGame every log entry is claimed as    *)
(* Bomb exactly when its tile is in the trap set recomputed from the final *)
(* seed and the supplied nonce, and every entry claimed as Reward carries  *)
(* the reward recomputed for its tile and the game's betAmount.            *)
(***************************************************************************)
C2_AcceptedLogMatchesTraps ==
    \A g \in GameIds :
        Finalised(g) =>
            \A i \in 1..Len(gameReveals[g]) :
                LET e == gameReveals[g][i]
                IN  /\ (e.tileType = Bomb) <=> (e.tileIndex \in AcceptedBombs(g))
                    /\ e.tileType = Reward =>
                          e.reward = _calculateReward(AcceptedFinalSeed(g), g, e.tileIndex,
                                                      games[g].betAmount)

\* an accepted log that holds a Reward claim and a Bomb claim
C2_Witness ==
    \E g \in GameIds :
        /\ Finalised(g)
        /\ \E i, j \in 1..Len(gameReveals[g]) :
              gameReveals[g][i].tileType = Reward /\ gameReveals[g][j].tileType = Bomb

(***************************************************************************)
(* C3: in a game accepted by completeGame every claim agrees with the map  *)
(* recomputed from the revealed inputs: an entry is claimed as Reward      *)
(* exactly when the Map Generator selects its tile as a reward tile.       *)
(***************************************************************************)
C3_AcceptedLogMatchesMap ==
    \A g \in GameIds :
        Finalised(g) =>
            \A i \in 1..Len(gameReveals[g]) :
                LET e == gameReveals[g][i]
                IN  (e.tileType = Reward) <=>
                        isRewardTile(AcceptedFinalSeed(g), g, GeneratedMap(g).bombSet,
                                     startTile[g], finishTile[g], e.tileIndex, gameGridSize[g])

(***************************************************************************)
(* C4: completeGame accepts a nonce only if the recomputed trap layout     *)
(* leaves a trap-avoiding 4-directional path from start to finish.         *)
(***************************************************************************)
C4_AcceptedLayoutConnected ==
    \A g \in GameIds :
        Finalised(g) => hasPath(startTile[g], finishTile[g], bombBitmap[g], gameGridSize[g])

(***************************************************************************)
(* C5: completeGame accepts no nonce other than the first one (counting    *)
(* from 0) whose layout is connected.                                      *)
(***************************************************************************)
C5_AcceptedNonceIsFirstConnected ==
    \A g \in GameIds :
        Finalised(g) => completeArgs[g].nonce = GeneratedMap(g).nonce

(***************************************************************************)
(* C6: the salt commitment a game is bound to was committed strictly       *)
(* before the step that issues the game's VRF request, and the game's      *)
(* backendSaltHash never changes afterwards.                               *)
(***************************************************************************)
C6_CommitBeforeRequest ==
    [][\A g \in GameIds :
          /\ (g \notin vrfRequested /\ g \in vrfRequested') =>
                /\ games'[g].backendSaltHash # 0
                /\ <<games'[g].player, games'[g].backendSaltHash>> \in saltCommitted
          /\ g \in vrfRequested => games'[g].backendSaltHash = games[g].backendSaltHash]_vars

\* the VRF output has arrived for a game whose commitment was made before
C6_Witness ==
    \E g \in GameIds :
        /\ g \in vrfRequested
        /\ games[g].phase = Active
        /\ <<games[g].player, games[g].backendSaltHash>> \in saltCommitted

(***************************************************************************)
(* C7: no message sent to a player about a game whose phase is waiting_vrf *)
(* or active (a read route's response or a WebSocket broadcast) carries    *)
(* the game's vrf_seed, backend_salt or trap positions.                    *)
(***************************************************************************)
C7_NoSecretsBeforeCompleted ==
    response.phase \in {"waiting_vrf", "active"} =>
        /\ response.vrf_seed = 0
        /\ response.backend_salt = 0
        /\ response.bomb_positions = {}

(***************************************************************************)
(* C8 as claimed: every change of a game's phase is one step along         *)
(* WaitingVRF -> Active -> Completed (after its creation None ->           *)
(* WaitingVRF); no state is skipped.                                       *)
(***************************************************************************)
C8_PhaseLinearNoSkip ==
    [][\A g \in GameIds :
          games'[g].phase # games[g].phase =>
              <<games[g].phase, games'[g].phase>> \in
                  {<<None, WaitingVRF>>, <<WaitingVRF, Active>>, <<Active, Completed>>}]_vars

(***************************************************************************)
(* C8 amended: a game's phase never moves backwards and never re-enters a  *)
(* state; it advances WaitingVRF -> Active -> Completed, and the only step *)
(* that skips Active is the refund of cancelGame (payout = betAmount, not  *)
(* finalised by completeGame).                                             *)
(***************************************************************************)
C8_PhaseForwardOnly ==
    [][\A g \in GameIds :
          games'[g].phase # games[g].phase =>
              /\ <<games[g].phase, games'[g].phase>> \in
                     {<<None, WaitingVRF>>, <<WaitingVRF, Active>>, <<Active, Completed>>,
                      <<WaitingVRF, Completed>>}
              /\ <<games[g].phase, games'[g].phase>> = <<WaitingVRF, Completed>> =>
                     /\ ~Finalised(g)'
                     /\ ~games'[g].won
                     /\ games'[g].payout = games[g].betAmount]_vars

\* a game cancelled while it waited for the VRF, and one that went through Active
C8_Witness ==
    \E g \in GameIds :
        /\ games[g].phase = Completed
        /\ games[g].pythSeed = 0
        /\ ~Finalised(g)

(***************************************************************************)
(* C9: every accepted reveal targets an unrevealed tile adjacent to the    *)
(* token and not in a row behind it; in every accepted claim log the row   *)
(* index never increases and no tile appears twice.                        *)
(***************************************************************************)
Row(g, tile) == tile \div gameGridSize[g]

LogForwardOnly(g, log) ==
    \A i, j \in 1..Len(log) :
        i < j => /\ Row(g, log[j].tileIndex) <= Row(g, log[i].tileIndex)
                 /\ log[j].tileIndex # log[i].tileIndex

C9_RevealsForwardOnly ==
    [][\A g \in GameIds :
          /\ Len(gameReveals'[g]) > Len(gameReveals[g]) =>
                LET t == gameReveals'[g][Len(gameReveals'[g])].tileIndex
                IN  /\ t \notin revealedTiles[g]
                    /\ _isAdjacent4Way(foxPosition[g], t, gameGridSize[g])
                    /\ Row(g, t) <= Row(g, foxPosition[g])
          /\ Finalised(g)' => LogForwardOnly(g, gameReveals'[g])]_vars

(***************************************************************************)
(* C10: once a reveal onto a trap or onto the finish tile has been         *)
(* accepted, no further reveal is accepted for that game.                  *)
(***************************************************************************)
TerminalReveal(g) ==
    \/ hitBombAt[g] > 0
    \/ /\ startTile[g] # 0
       /\ Len(gameReveals[g]) > 0
       /\ gameReveals[g][Len(gameReveals[g])].tileIndex = finishTile[g]

C10_NoRevealAfterTerminal ==
    [][\A g \in GameIds : TerminalReveal(g) => gameReveals'[g] = gameReveals[g]]_vars

\* C11: once a Bomb reveal has been accepted for a game, no operation
\* transfers funds to the player for that game or records a non-zero payout
C11_TrapHitPaysNothing ==
    \A g \in GameIds : hitBombAt[g] > 0 => paidOut[g] = 0 /\ games[g].payout = 0

\* the sum revealTile has accumulated over the game's claim log: the rewards
\* of the entries claimed Reward that are not on the finish tile
RECURSIVE SumRewards(_, _)
SumRewards(reveals, finish) ==
    IF reveals = <<>> THEN 0
    ELSE LET reveal == Head(reveals)
         IN  (IF reveal.tileType = Reward /\ reveal.tileIndex # finish
              THEN reveal.reward ELSE 0) + SumRewards(Tail(reveals), finish)

\* the step in which completeGame finalises game g as reached-finish
WinStep(g) == ~Finalised(g) /\ Finalised(g)' /\ hitBombAt[g] = 0

\* what the win step does for the player and to the game record
WinPaysNet(g) ==
    LET gross == games[g].collectedReward
        fee == (gross * 250) \div 10000
    IN  /\ foxPosition[g] = finishTile[g]
        /\ gross = SumRewards(gameReveals[g], finishTile[g])
        /\ games'[g].won /\ games'[g].phase = Completed
        /\ games'[g].payout = gross - fee
        /\ paidOut'[g] = paidOut[g] + gross - fee
        /\ \A h \in GameIds \ {g} : paidOut'[h] = paidOut[h]

ChecksPass(g, backendSalt, nonce) ==
    LET gridWidth == gameGridSize[g]
        finalSeed == keccak256(<<games[g].pythSeed, backendSalt, g, VERSION>>)
        expStart == gridWidth * gridWidth - gridWidth
                    + (keccak256(<<finalSeed, g, StrCode("start"), VERSION>>) % gridWidth)
        expFinish == keccak256(<<finalSeed, g, StrCode("finish"), VERSION>>) % gridWidth
        bombs == _calculateBombs(finalSeed, g, startTile[g], finishTile[g], gridWidth,
                                 _getBombCount(gridWidth), nonce)
    IN  /\ keccak256(<<backendSalt>>) = games[g].backendSaltHash
        /\ startTile[g] = expStart
        /\ finishTile[g] = expFinish
        /\ \A i \in 1..Len(gameReveals[g]) :
              LET e == gameReveals[g][i]
              IN  /\ (e.tileType = Bomb) <=> (e.tileIndex \in bombs)
                  /\ e.tileType = Reward =>
                        e.reward = _calculateReward(finalSeed, g, e.tileIndex,
                                                    games[g].betAmount)

\* a step that records an outcome of completeGame for game g
OutcomeRecorded(g) ==
    \/ completeArgs'[g] # completeArgs[g]
    \/ bombBitmap'[g] # bombBitmap[g]
    \/ games'[g].won # games[g].won

\* C13: completeGame fails closed: a step records an outcome for a game
\* (won flag, bomb bitmap, win or loss counter, payout of a win, house fee)
\* only if the salt, the start and finish tiles, and every log entry's tile
\* type and reward passed verification; otherwise none of these changes
C13_FailsClosed ==
    [][/\ \A g \in GameIds :
             OutcomeRecorded(g) =>
                 ChecksPass(g, completeArgs'[g].backendSalt, completeArgs'[g].nonce)
       /\ (\/ feesPaid' # feesPaid
           \/ statistics'.totalWins # statistics.totalWins
           \/ statistics'.totalLosses # statistics.totalLosses
           \/ statistics'.totalPayout # statistics.totalPayout)
          => \E g \in GameIds :
                 /\ OutcomeRecorded(g)
                 /\ ChecksPass(g, completeArgs'[g].backendSalt, completeArgs'[g].nonce)]_vars

\* a game was finalised although a completeGame call with the other salt,
\* or with another nonce, fails verification for it
C13_Witness ==
    \E g \in GameIds :
        /\ Finalised(g)
        /\ Len(gameReveals[g]) > 1
        /\ \E backendSalt \in Salts, nonce \in 0..MaxNonce :
               \/ keccak256(<<backendSalt>>) # games[g].backendSaltHash
               \/ /\ nonce # completeArgs[g].nonce
                  /\ \E i \in 1..Len(gameReveals[g]) :
                         gameReveals[g][i].tileType = Bomb
                         /\ gameReveals[g][i].tileIndex \notin
                                _calculateBombs(AcceptedFinalSeed(g), g, startTile[g],
                                                finishTile[g], gameGridSize[g],
                                                _getBombCount(gameGridSize[g]), nonce)

\* the payouts recorded for the games of a set
RECURSIVE SumPayouts(_)
SumPayouts(gs) ==
    IF gs = {} THEN 0
    ELSE LET g == CHOOSE x \in gs : TRUE
         IN  games[g].payout + SumPayouts(gs \ {g})

\* each game has been settled at most once: the player has received exactly
\* the payout recorded for a Completed game and nothing for any other game,
\* and the counters count each game once
SettledOnce ==
    LET wonGames == {g \in GameIds : Finalised(g) /\ games[g].won}
        lostGames == {g \in GameIds : Finalised(g) /\ ~games[g].won}
    IN  /\ \A g \in GameIds :
              paidOut[g] = (IF games[g].phase = Completed THEN games[g].payout ELSE 0)
        /\ statistics.totalWins = Cardinality(wonGames)
        /\ statistics.totalLosses = Cardinality(lostGames)
        /\ statistics.totalPayout = SumPayouts(wonGames)
        /\ statistics.totalGamesPlayed = gameCounter

\* C14: settlement is idempotent per game: across completeGame and cancelGame
\* calls the player of a game is paid at most once and the statistics are
\* updated at most once; a call for a game already Completed changes nothing
C14_SettlementIdempotent ==
    [][/\ SettledOnce'
       /\ \A g \in GameIds :
             games[g].phase = Completed =>
                 /\ games'[g] = games[g]
                 /\ paidOut'[g] = paidOut[g]
                 /\ completeArgs'[g] = completeArgs[g]
                 /\ bombBitmap'[g] = bombBitmap[g]]_vars

\* a game settled by completeGame with a payout, counted as the one win
C14_Witness ==
    \E g \in GameIds :
        /\ games[g].phase = Completed /\ Finalised(g)
        /\ paidOut[g] > 0
        /\ statistics.totalWins = 1 /\ statistics.totalPayout = paidOut[g]

\* the games of a player that are in flight: WaitingVRF or Active
GamesInFlight(player) ==
    {g \in GameIds : games[g].player = player /\ games[g].phase \in {WaitingVRF, Active}}

\* C15: each player has at most one game in WaitingVRF or Active, and
\* playerActiveGame[player] is the id of that game, 0 when there is none;
\* so startGame, which requires playerActiveGame = 0, is rejected for a
\* player with a game in flight
C15_OneGameInFlight ==
    \A player \in Players :
        /\ Cardinality(GamesInFlight(player)) <= 1
        /\ GamesInFlight(player) = {} => playerActiveGame[player] = 0
        /\ GamesInFlight(player) # {} => playerActiveGame[player] \in GamesInFlight(player)

\* the player's first game is Completed and their second game is in flight
C15_Witness ==
    \E player \in Players :
        /\ games[1].player = player /\ games[1].phase = Completed
        /\ GamesInFlight(player) = {2}
        /\ playerActiveGame[player] = 2

\* C16: a commitment pending for a player is never overwritten: while it is
\* pending, the player's pending hash stays as it is or is cleared (by
\* startGame or cancelPendingSalt), and a later commitSaltHash is rejected
C16_PendingNeverOverwritten ==
    [][\A player \in Players :
          pendingSaltHash[player] # 0 =>
              pendingSaltHash'[player] \in {pendingSaltHash[player], 0}]_vars

\* C17: a game is created only from a commitment pending for the caller;
\* that commitment becomes the game's backendSaltHash and leaves the pending
\* set, and no step creates a game for a player with no pending commitment,
\* so a second startGame needs a fresh commitSaltHash
C17_CommitmentConsumedByStart ==
    [][/\ gameCounter' # gameCounter =>
             LET g == gameCounter'
                 player == games'[g].player
             IN  /\ gameCounter' = gameCounter + 1
                 /\ games[g].player = NoAddress
                 /\ pendingSaltHash[player] # 0
                 /\ games'[g].backendSaltHash = pendingSaltHash[player]
                 /\ pendingSaltHash'[player] = 0
       /\ \A player \in Players :
             pendingSaltHash[player] = 0 =>
                 \A g \in GameIds :
                     games'[g].player = player => games[g].player = player]_vars

\* two games of one player, each bound to its own commitment, none pending
C17_Witness ==
    \E player \in Players :
        /\ games[1].player = player /\ games[2].player = player
        /\ games[1].backendSaltHash # 0 /\ games[2].backendSaltHash # 0
        /\ games[1].backendSaltHash # games[2].backendSaltHash
        /\ pendingSaltHash[player] = 0

\* the game's token stands on the finish tile after an accepted reveal of it
FinishReached(g) ==
    /\ startTile[g] # 0
    /\ gameReveals[g] # <<>>
    /\ gameReveals[g][Len(gameReveals[g])].tileIndex = finishTile[g]

\* C18: the raw salt appears on-chain, as the argument of an accepted
\* completeGame, only for a game in a terminal position: a trap was hit or
\* the finish tile was reached by an accepted reveal after the tiles were set
C18_SaltDisclosedOnlyAtTerminal ==
    \A g \in GameIds :
        completeArgs[g].called => hitBombAt[g] > 0 \/ FinishReached(g)

\* a salt disclosed for a game that reached the finish without a trap hit
C18_Witness ==
    \E g \in GameIds :
        /\ completeArgs[g].called
        /\ completeArgs[g].backendSalt \in Salts
        /\ hitBombAt[g] = 0
        /\ FinishReached(g)

\* the tiles a 4-directional walk from the given tiles reaches without
\* entering a trap
RECURSIVE Reachable(_, _, _)
Reachable(tiles, bombSet, gridWidth) ==
    LET step == tiles \cup {t \in 0..(gridWidth * gridWidth - 1) :
                               /\ t \notin bombSet
                               /\ \E s \in tiles : _isAdjacent4Way(s, t, gridWidth)}
    IN  IF step = tiles THEN tiles ELSE Reachable(step, bombSet, gridWidth)

\* the GameMap invariant for a map on a grid of the given width
GameMapInvariant(map, gridWidth) ==
    LET totalTiles == gridWidth * gridWidth
    IN  /\ map.startTile \in (totalTiles - gridWidth)..(totalTiles - 1)
        /\ map.finishTile \in 0..(gridWidth - 1)
        /\ map.bombSet \subseteq 0..(totalTiles - 1)
        /\ Cardinality(map.bombSet) = (CASE gridWidth = 5 -> 3
                                         [] gridWidth = 6 -> 5
                                         [] gridWidth = 7 -> 7)
        /\ map.startTile \notin map.bombSet
        /\ map.finishTile \notin map.bombSet
        /\ map.finishTile \in Reachable({map.startTile}, map.bombSet, gridWidth)

\* C19: every map the Map Generator returns, for the widths 5, 6 and 7,
\* has its start in the bottom row, its finish in the top row, exactly the
\* grid's trap count (3, 5, 7) of distinct traps, neither start nor finish
\* among them, and a trap-avoiding 4-directional path from start to finish
C19_GeneratedMapInvariant ==
    mapOutput.generated => GameMapInvariant(mapOutput, mapInput.gridWidth)

\* a generated map whose first layout was disconnected: it was found at a
\* later attempt
C19_Witness ==
    /\ mapOutput.generated
    /\ mapOutput.nonce > 0
    /\ mapOutput.bombSet # {}

\* the attempt limits under which the loop is examined: the program's 100
\* and the small ones under which the inputs of MapSpec exhaust it
MaxAttemptLimit == 2
AttemptLimits == (1..MaxAttemptLimit) \cup {maxAttempts}

\* none of the first `attempts` layouts of the input is connected
Exhausted(attempts, finalSeed, gameId, gridWidth) ==
    LET tiles == selectStartAndFinish(finalSeed, gameId, gridWidth)
    IN  \A nonce \in 0..(attempts - 1) :
            ~hasPath(tiles.startTile, tiles.finishTile,
                     BombLayout(nonce, finalSeed, gameId, tiles.startTile,
                                tiles.finishTile, gridWidth), gridWidth)

\* C20: when no attempt of the nonce search yields a connected layout, the
\* generator does not return a trap set that is not derived from the seed
C20_ExhaustionNeverFallsBack ==
    mapOutput.generated =>
        \A attempts \in AttemptLimits :
            LET finalSeed == mapInput.finalSeed
                gameId == mapInput.gameId
                gridWidth == mapInput.gridWidth
                tiles == selectStartAndFinish(finalSeed, gameId, gridWidth)
                placed == PlaceBombsWithin(attempts, 0, finalSeed, gameId, tiles.startTile,
                                           tiles.finishTile, gridWidth)
            IN  Exhausted(attempts, finalSeed, gameId, gridWidth) =>
                    placed.bombSet = BombLayout(placed.nonce, finalSeed, gameId,
                                                tiles.startTile, tiles.finishTile, gridWidth)

(***************************************************************************)
(* The reveal route, POST /api/game/:gameId/reveal, with the contract its  *)
(* transactions go to.  A handler runs from one await to the next without  *)
(* interruption; handlers of other requests run in between.                *)
(***************************************************************************)
\* the tile indices a request body carries: the tiles on and beside the way from the
\* start tile to the finish tile, a far tile, and GRID_CONFIG[5].size, out of range
RevealTileInputs == {0, 5, 10, 11, 15, 16, 20, 21, 25}

\* res.status(status).json(...): the handler returns and its locals are gone
Respond(r, status) ==
    [revealRequests EXCEPT ![r] =
        [NoRequest EXCEPT !.pc = "done", !.gameId = revealRequests[r].gameId,
                          !.tileIdx = revealRequests[r].tileIdx, !.status = status]]

\* revealedTilesCache.get(gameId), or the new Set(game.revealed_tiles) put in its place
CachedRevealed(gameId, game) ==
    IF revealedTilesCache[gameId].cached THEN revealedTilesCache[gameId].tiles
    ELSE {game.revealed_tiles[i] : i \in 1..Len(game.revealed_tiles)}

\* the handler up to `await db.getGame(gameId)`, for a session that validateSession accepts
revealRead(r, player, gameId, tileIdx) ==
    /\ revealRequests[r].pc = "idle"
    /\ revealRequests' = [revealRequests EXCEPT ![r] =
            [NoRequest EXCEPT !.pc = "read", !.player = player, !.gameId = gameId,
                              !.tileIdx = tileIdx, !.game = getGame(gameId)]]
    /\ UNCHANGED <<pendingReveals, revealedTilesCache>>

\* the handler from the document it read to `await sendSyncTx('revealTile', ...)`
revealValidate(r) ==
    LET q == revealRequests[r]
        game == q.game
        gameId == q.gameId
        tileIdx == q.tileIdx
        gridWidth == IF game.grid_size = 0 THEN 5 ELSE game.grid_size
        config == getGridConfig(gridWidth)
        foxPos == game.fox_position
        currentRow == foxPos \div gridWidth
        newRow == tileIdx \div gridWidth
        cachedRevealed == CachedRevealed(gameId, game)
        pendingKey == <<gameId, tileIdx>>
        finalSeed == calculateFinalSeed(game.vrf_seed, game.backend_salt, gameId)
        bombSet == game.bomb_positions
        isFinishTile == tileIdx = game.finish_tile
        tileType == IF tileIdx \in bombSet THEN Bomb
                    ELSE IF isFinishTile THEN Empty
                    ELSE IF isRewardTile(finalSeed, gameId, bombSet, game.start_tile,
                                         game.finish_tile, tileIdx, gridWidth) THEN Reward
                    ELSE Empty
        reward == IF tileType = Reward
                  THEN getTileReward(finalSeed, gameId, game.bet_amount, tileIdx) ELSE 0
        Rejected(status) == /\ revealRequests' = Respond(r, status)
                            /\ UNCHANGED <<pendingReveals, revealedTilesCache>>
        CacheSet(tiles) == revealedTilesCache' =
            [revealedTilesCache EXCEPT ![gameId] = [cached |-> TRUE, tiles |-> tiles]]
    IN  /\ q.pc = "read"
        /\ IF ~game.exists THEN Rejected(404)
           ELSE IF tileIdx < 0 \/ tileIdx >= config.size THEN Rejected(400)
           ELSE IF game.player # q.player THEN Rejected(403)
           ELSE IF game.phase # "active" THEN Rejected(400)
           ELSE IF game.vrf_seed = 0 \/ game.backend_salt = 0 THEN Rejected(400)
           ELSE IF ~isAdjacent4Way(foxPos, tileIdx, gridWidth) THEN Rejected(400)
           ELSE IF newRow > currentRow THEN Rejected(400)
           ELSE IF tileIdx \in cachedRevealed
           THEN /\ CacheSet(cachedRevealed)
                /\ revealRequests' = Respond(r, 400)
                /\ UNCHANGED pendingReveals
           ELSE IF pendingKey \in pendingReveals
           THEN /\ CacheSet(cachedRevealed)
                /\ revealRequests' = [Respond(r, 200) EXCEPT ![r].pending = TRUE]
                /\ UNCHANGED pendingReveals
           ELSE /\ pendingReveals' = pendingReveals \cup {pendingKey}
                /\ CacheSet(cachedRevealed \cup {tileIdx})
                /\ revealRequests' = [revealRequests EXCEPT ![r].pc = "submitted",
                                          ![r].tileType = tileType, ![r].reward = reward]

\* the handler from the revealTile transaction's receipt to its response: the transaction
\* is mined or reverts, and db.updateFoxPosition follows a mined one
revealSubmit(r) ==
    LET q == revealRequests[r]
        gameOver == q.tileType = Bomb \/ q.tileIdx = q.game.finish_tile
    IN  /\ q.pc = "submitted"
        /\ pendingReveals' = pendingReveals \ {<<q.gameId, q.tileIdx>>}
        /\ UNCHANGED revealedTilesCache
        /\ IF revealTileRequires(q.player, q.gameId, q.tileIdx, q.tileType)
           THEN /\ revealTile(q.player, q.gameId, q.tileIdx, q.tileType, q.reward)
                /\ dbGame' = [dbGame EXCEPT ![q.gameId].fox_position = q.tileIdx]
                /\ revealRequests' = IF gameOver
                                      THEN [revealRequests EXCEPT ![r].pc = "completing",
                                                                  ![r].status = 200]
                                      ELSE Respond(r, 200)
           ELSE /\ UNCHANGED contractVars
                /\ UNCHANGED dbGame
                /\ revealRequests' = Respond(r, 500)
        /\ UNCHANGED <<dbActions, dbPendingSalts, pendingSaltCache, eventCursor, relayerTxs,
                       response>>

\* sendSyncTx('completeGame', ...) of a reveal that ended the game: the transaction is
\* mined and the promise resolves; a transaction that reverts either resolves with
\* status 0, which .then() does not look at, or rejects, which .catch() logs
revealComplete(r) ==
    LET q == revealRequests[r]
        game == q.game
    IN  /\ q.pc = "completing"
        /\ IF completeGameRequires(q.gameId, game.backend_salt, game.map_nonce)
           THEN /\ completeGame(q.gameId, game.backend_salt, game.map_nonce)
                /\ revealRequests' = [revealRequests EXCEPT ![r].pc = "recording"]
           ELSE /\ UNCHANGED contractVars
                /\ \/ revealRequests' = [revealRequests EXCEPT ![r].pc = "recording"]
                   \/ revealRequests' = Respond(r, q.status)
        /\ UNCHANGED <<backendVars, pendingReveals, revealedTilesCache>>

\* .then(): await db.completeGame(gameId, won, payout, bombSet, []), where the payout
\* of a win is the collected_reward of the document the handler read
revealRecord(r) ==
    LET q == revealRequests[r]
        game == q.game
        won == q.tileType # Bomb
    IN  /\ q.pc = "recording"
        /\ dbGame' = [dbGame EXCEPT ![q.gameId] =
                [@ EXCEPT !.phase = "completed", !.won = won,
                          !.payout = IF won THEN game.collected_reward ELSE 0]]
        /\ revealRequests' = Respond(r, q.status)
        /\ UNCHANGED <<dbActions, dbPendingSalts, pendingSaltCache, eventCursor, relayerTxs,
                       response, pendingReveals, revealedTilesCache>>
        /\ UNCHANGED contractVars

\* the response has been sent and nothing of the handler is left to run
revealReturn(r) ==
    /\ revealRequests[r].pc = "done"
    /\ revealRequests' = [revealRequests EXCEPT ![r] = NoRequest]
    /\ UNCHANGED <<pendingReveals, revealedTilesCache>>

\* the one game of RevealSpec is played on the 5x5 grid for a bet of 100
RouteGridSize == 5
RouteBet == 100

RoutePrepare == \E player \in Players, backendSalt \in CommitSalts :
                    /\ gameCounter = 0
                    /\ pendingSaltCache[player] = NoSalt
                    /\ prepare(player, backendSalt, RouteGridSize)
                    /\ commitSaltHash(player, keccak256(<<backendSalt>>))
                    /\ UNCHANGED <<mapVars, revealVars, tierVars, serviceVars>>

RouteStartGame == \E player \in Players :
                      /\ gameCounter < MaxGames
                      /\ startGame(player, RouteGridSize, EntropyFee + RouteBet)
                      /\ handleGameStarted(gameCounter + 1, player, RouteBet, RouteGridSize,
                                           pendingSaltHash[player])
                      /\ eventCursor' = [eventCursor EXCEPT ![gameCounter + 1] = 1]
                      /\ UNCHANGED <<mapVars, revealVars, tierVars, serviceVars>>

RouteVRFReceived == \E sequenceNumber \in SequenceNumbers, pythSeed \in LifecyclePythSeeds :
                        /\ vrfSeqToGame[sequenceNumber] # 0
                        /\ entropyCallback(sequenceNumber, pythSeed)
                        /\ handleVRFReceived(vrfSeqToGame[sequenceNumber], pythSeed)
                        /\ eventCursor' = [eventCursor EXCEPT
                                               ![vrfSeqToGame[sequenceNumber]] = 2]
                        /\ UNCHANGED <<mapVars, revealVars, tierVars, serviceVars>>

\* the relayer's setGameTiles transaction and the GameReady event it emits
RouteGameReady == \E gameId \in GameIds :
                      /\ eventCursor[gameId] = 2
                      /\ <<"setGameTiles", gameId, dbGame[gameId].start_tile,
                           dbGame[gameId].finish_tile>> \in relayerTxs
                      /\ setGameTiles(gameId, dbGame[gameId].start_tile,
                                      dbGame[gameId].finish_tile)
                      /\ handleGameReady(gameId)
                      /\ eventCursor' = [eventCursor EXCEPT ![gameId] = 3]
                      /\ UNCHANGED <<mapVars, revealVars, tierVars, serviceVars>>

\* a request is handled in the first free slot
RevealRead == \E r \in RequestIds, player \in Players, gameId \in GameIds,
                 tileIdx \in RevealTileInputs :
                  /\ \A other \in 1..(r - 1) : revealRequests[other].pc # "idle"
                  /\ revealRead(r, player, gameId, tileIdx)
                  /\ UNCHANGED <<contractVars, backendVars, mapVars, tierVars, serviceVars>>

RevealValidate == \E r \in RequestIds :
                      /\ revealValidate(r)
                      /\ UNCHANGED <<contractVars, backendVars, mapVars, tierVars, serviceVars>>

RevealSubmit == \E r \in RequestIds : revealSubmit(r) /\ UNCHANGED <<mapVars, tierVars, serviceVars>>

RevealComplete == \E r \in RequestIds : revealComplete(r) /\ UNCHANGED <<mapVars, tierVars, serviceVars>>

RevealRecord == \E r \in RequestIds : revealRecord(r) /\ UNCHANGED <<mapVars, tierVars, serviceVars>>

RevealReturn == \E r \in RequestIds :
                    /\ revealReturn(r)
                    /\ UNCHANGED <<contractVars, backendVars, mapVars, tierVars, serviceVars>>

RevealNext ==
    \/ RoutePrepare
    \/ RouteStartGame
    \/ RouteVRFReceived
    \/ RouteGameReady
    \/ RevealRead
    \/ RevealValidate
    \/ RevealSubmit
    \/ RevealComplete
    \/ RevealRecord
    \/ RevealReturn

RevealSpec == Init /\ [][RevealNext]_vars

(***************************************************************************)
(* C21 .. C30                                                              *)
(***************************************************************************)
\* the handler of request r has validated its move and awaits its revealTile transaction
InFlight(r) == revealRequests[r].pc = "submitted"

\* C21: reveal requests for one game are serialized: while the handler of one request
\* for a game is between its validation and the end of its transaction, no other
\* request for that game -- for the same tile or another -- has been validated
\* against the same token position and is in flight with it.
C21_RevealsSerialized ==
    \A r1, r2 \in RequestIds :
        (r1 # r2 /\ InFlight(r1) /\ InFlight(r2)
            /\ revealRequests[r1].gameId = revealRequests[r2].gameId)
        => revealRequests[r1].game.fox_position # revealRequests[r2].game.fox_position

\* the move to tileIdx is illegal for the game as the contract holds it: out of range,
\* already revealed, not 4-adjacent to the token, or to a row behind it
IllegalMove(gameId, tileIdx) ==
    LET gridWidth == gameGridSize[gameId]
    IN  \/ tileIdx >= _getGridTotalTiles(gridWidth)
        \/ tileIdx \in revealedTiles[gameId]
        \/ ~_isAdjacent4Way(foxPosition[gameId], tileIdx, gridWidth)
        \/ tileIdx \div gridWidth > foxPosition[gameId] \div gridWidth

\* the tiles the backend holds as revealed: the cache, or what it would be created from
CacheView(gameId) ==
    IF revealedTilesCache[gameId].cached THEN revealedTilesCache[gameId].tiles
    ELSE {dbGame[gameId].revealed_tiles[i] : i \in 1..Len(dbGame[gameId].revealed_tiles)}

\* the step is the validation of request r, for an Active game, of an illegal move
ValidatesIllegalMove(r) ==
    LET q == revealRequests[r]
    IN  /\ q.pc = "read"
        /\ revealRequests'[r].pc # "read"
        /\ q.game.exists
        /\ q.game.phase = "active"
        /\ games[q.gameId].phase = Active
        /\ IllegalMove(q.gameId, q.tileIdx)

\* C22: an illegal move (out of range, already revealed, not adjacent, backward) of an
\* Active game is rejected by the reveal handler with status 400 and changes nothing:
\* the token position, the revealed set, the backend's revealed-tile cache and pending
\* keys, the collected reward, the claim log and the phase, on the contract and in the
\* database, are as before; and the contract's revealTile accepts no illegal move.
C22_IllegalMoveChangesNothing ==
    [][/\ \A r \in RequestIds :
              ValidatesIllegalMove(r)
              => /\ revealRequests'[r].pc = "done"
                 /\ revealRequests'[r].status = 400
                 /\ pendingReveals' = pendingReveals
                 /\ CacheView(revealRequests[r].gameId)' = CacheView(revealRequests[r].gameId)
                 /\ UNCHANGED <<games, foxPosition, revealedTiles, gameReveals, dbGame>>
       /\ \A g \in GameIds :
              gameReveals'[g] # gameReveals[g]
              => ~IllegalMove(g, gameReveals'[g][Len(gameReveals'[g])].tileIndex)]_vars

\* C23: a Completed game is frozen: no step (entropyCallback, setGameTiles, revealTile,
\* completeGame, cancelGame, or any operation on another game) changes its record
\* (phase, won, payout, collected reward, revealed count), its token position, its
\* revealed set, its trap hit or its claim log.
C23_CompletedIsFrozen ==
    [][\A g \in GameIds :
           games[g].phase = Completed
           => /\ games'[g] = games[g]
              /\ foxPosition'[g] = foxPosition[g]
              /\ revealedTiles'[g] = revealedTiles[g]
              /\ hitBombAt'[g] = hitBombAt[g]
              /\ gameReveals'[g] = gameReveals[g]]_vars

\* a game with accepted reveals is Completed while a later game is Active and has
\* had a reveal accepted
C23_Witness ==
    \E g1, g2 \in GameIds :
        /\ g1 < g2
        /\ games[g1].phase = Completed
        /\ gameReveals[g1] # <<>>
        /\ games[g2].phase = Active
        /\ gameReveals[g2] # <<>>

\* C24: whenever a game is Active its start tile is set to a tile of the bottom row, the
\* start tile is revealed, the token stands on a revealed tile (on the start tile while
\* no reveal has been accepted), and every accepted reveal came after the token was
\* placed (the start tile was revealed before it).
C24_ActiveTokenPlaced ==
    \A g \in GameIds :
        games[g].phase = Active
        => LET gridWidth == gameGridSize[g]
               totalTiles == _getGridTotalTiles(gridWidth)
           IN  /\ startTile[g] >= totalTiles - gridWidth
               /\ startTile[g] < totalTiles
               /\ finishTile[g] < gridWidth
               /\ startTile[g] \in revealedTiles[g]
               /\ foxPosition[g] \in revealedTiles[g]
               /\ gameReveals[g] = <<>> => foxPosition[g] = startTile[g]
               /\ Cardinality(revealedTiles[g]) = Len(gameReveals[g]) + 1

\* C25: a game in WaitingVRF can always be ended through cancelGame: in every state in
\* which a game waits for its VRF callback (no VRF output stored), the call with its
\* refund of betAmount is accepted from the owner and from the relayer, from the game's
\* player exactly when the hour has passed, and from nobody else.
C25_StuckGameCancellable ==
    \A g \in GameIds :
        games[g].phase = WaitingVRF
        => /\ cancelGameRequires(Owner, g)
           /\ cancelGameRequires(Relayer, g)
           /\ cancelGameRequires(games[g].player, g) <=> now > games[g].timestamp
           /\ ~cancelGameRequires(Stranger, g)
           /\ games[g].pythSeed = 0

\* C26: the contract's _calculateBombs, called with the nonce the backend recorded for
\* the map, returns exactly the trap set that placeBombsWithNonce accepted at that
\* nonce, for every final seed, game and grid width; also when the layout of nonce 0
\* was disconnected and a later one was accepted.
C26_ContractRecomputesTraps ==
    mapOutput.generated
    => _calculateBombs(mapInput.finalSeed, mapInput.gameId, mapOutput.startTile,
                       mapOutput.finishTile, mapInput.gridWidth,
                       _getBombCount(mapInput.gridWidth), mapOutput.nonce)
       = mapOutput.bombSet

\* a map of the 7-wide grid accepted at a nonce after 0
C26_Witness ==
    /\ mapOutput.generated
    /\ mapInput.gridWidth = 7
    /\ mapOutput.nonce > 0
    /\ Cardinality(mapOutput.bombSet) = _getBombCount(7)

(***************************************************************************)
(* The verifier page fed with seeds                                        *)
(***************************************************************************)
MaxVrfSeed == 49
VerifierInputs ==
    [vrfSeed : 0..MaxVrfSeed, backendSalt : Salts, gameId : GameIds,
     gridWidth : MapGridWidths]

CalculateMap ==
    /\ ~mapOutput.generated
    /\ mapOutput' = calculateMapFromSeeds(mapInput.vrfSeed, mapInput.backendSalt,
                                          mapInput.gameId, mapInput.gridWidth)
    /\ UNCHANGED <<mapInput, contractVars, backendVars, revealVars, tierVars, serviceVars>>

VerifierInit ==
    /\ SystemInit
    /\ mapInput \in VerifierInputs
    /\ mapOutput = NoMap

VerifierNext == CalculateMap

VerifierSpec == VerifierInit /\ [][VerifierNext]_vars

\* C27: the backend's map generator and verify.js calculateMapFromSeeds agree on the
\* final seed, the start tile, the finish tile, the nonce, the trap set and the reward
\* set for every (vrfSeed, backendSalt, gameId, gridWidth), under the program's attempt
\* limit and under every limit for which the nonce search is exhausted.
C27_VerifierAgreesWithBackend ==
    mapOutput.generated =>
        /\ mapOutput = BackendMapWithin(maxAttempts, mapInput.vrfSeed, mapInput.backendSalt,
                                        mapInput.gameId, mapInput.gridWidth)
        /\ \A attempts \in AttemptLimits :
               CalculateMapWithin(attempts, mapInput.vrfSeed, mapInput.backendSalt,
                                  mapInput.gameId, mapInput.gridWidth)
               = BackendMapWithin(attempts, mapInput.vrfSeed, mapInput.backendSalt,
                                  mapInput.gameId, mapInput.gridWidth)

(***************************************************************************)
(* hasPath called on its own                                               *)
(***************************************************************************)
\* the grids on which every start, finish and trap set is tried
MaxPathWidth == 3
PathInputs ==
    UNION {[start : 0..(w * w - 1), finish : 0..(w * w - 1),
            bombSet : SUBSET (0..(w * w - 1)), gridWidth : {w}] : w \in 2..MaxPathWidth}

FindPath ==
    /\ ~mapOutput.generated
    /\ mapOutput' = [found |-> hasPath(mapInput.start, mapInput.finish, mapInput.bombSet,
                                       mapInput.gridWidth),
                     pushed |-> SearchPath(mapInput.start, mapInput.finish,
                                           mapInput.bombSet, mapInput.gridWidth).pushed,
                     generated |-> TRUE]
    /\ UNCHANGED <<mapInput, contractVars, backendVars, revealVars, tierVars, serviceVars>>

PathInit ==
    /\ SystemInit
    /\ mapInput \in PathInputs
    /\ mapOutput = NoMap

PathNext == FindPath

PathSpec == PathInit /\ [][PathNext]_vars

\* C28: hasPath returns true exactly when a walk over 4-adjacent tiles inside the grid
\* (no step between the end of one row and the start of the next) leads from start to
\* finish without entering a trap; it returns false whenever start or finish is a trap;
\* and it puts no tile on its queue twice, so its loop ends after at most one round per
\* tile of the grid.
C28_HasPathIsReachability ==
    mapOutput.generated =>
        LET start == mapInput.start
            finish == mapInput.finish
            bombSet == mapInput.bombSet
            gridWidth == mapInput.gridWidth
            pushed == mapOutput.pushed
        IN  /\ mapOutput.found <=> /\ start \notin bombSet
                                   /\ finish \in Reachable({start}, bombSet, gridWidth)
            /\ (start \in bombSet \/ finish \in bombSet) => ~mapOutput.found
            /\ \A i, j \in 1..Len(pushed) : i # j => pushed[i] # pushed[j]
            /\ \A i \in 1..Len(pushed) :
                   pushed[i] \in 0..(gridWidth * gridWidth - 1) /\ pushed[i] \notin bombSet
            /\ Len(pushed) <= gridWidth * gridWidth

\* start and finish are both free, lie at the end of one row and the start of the next,
\* and every other way between them is closed: the search ends without a path
C28_Witness ==
    /\ mapOutput.generated
    /\ mapInput.gridWidth = 3
    /\ mapInput.start = 2
    /\ mapInput.finish = 3
    /\ mapInput.bombSet = {1, 5, 4}
    /\ ~mapOutput.found
    /\ Len(mapOutput.pushed) = 1

\* the tiles of the grid for which the backend's isRewardTile holds on the generated map
RewardTileSet ==
    {t \in 0..(getGridConfig(mapInput.gridWidth).size - 1) :
        isRewardTile(mapInput.finalSeed, mapInput.gameId, mapOutput.bombSet,
                     mapOutput.startTile, mapOutput.finishTile, t, mapInput.gridWidth)}

\* C29: for every seed and grid width the reward count lies in 5..8, 7..10 or 10..14
\* (widths 5, 6, 7); the reward tile set, the first rewardCount tiles of the shuffled
\* list as verify.js returns them, has exactly that many tiles, all on the grid and none
\* of them the start tile, the finish tile or a trap; and isRewardTile is true exactly
\* for the tiles of that set.
C29_RewardSetWellFormed ==
    mapOutput.generated =>
        LET gridWidth == mapInput.gridWidth
            rewardCount == getRewardCount(mapInput.finalSeed, mapInput.gameId, gridWidth)
            positions == getRewardPositions(mapInput.finalSeed, mapInput.gameId,
                                            mapOutput.bombSet, mapOutput.startTile,
                                            mapOutput.finishTile, gridWidth)
        IN  /\ rewardCount \in (CASE gridWidth = 5 -> 5..8
                                  [] gridWidth = 6 -> 7..10
                                  [] gridWidth = 7 -> 10..14)
            /\ Cardinality(positions) = rewardCount
            /\ positions \subseteq 0..(gridWidth * gridWidth - 1)
            /\ positions \cap ({mapOutput.startTile, mapOutput.finishTile}
                               \cup mapOutput.bombSet) = {}
            /\ RewardTileSet = positions

\* a map of the 7-wide grid with the largest reward count, 14
C29_Witness ==
    /\ mapOutput.generated
    /\ mapInput.gridWidth = 7
    /\ getRewardCount(mapInput.finalSeed, mapInput.gameId, 7) = 14
    /\ Cardinality(RewardTileSet) = 14

(***************************************************************************)
(* The reward tiers called on every roll                                   *)
(***************************************************************************)
RewardBets == {minBet, 15, 100, maxBet}
RewardInputs == [roll : 0..(RollModulus - 1), betAmount : RewardBets]

\* the tier loops of the contract's _calculateReward and of the backend's getTileReward
CalculateReward ==
    /\ ~mapOutput.generated
    /\ mapOutput' = [contract |-> TierAmount(mapInput.roll, 1, mapInput.betAmount,
                                             tierThresholds),
                     backend |-> TierReward(mapInput.roll, 0, mapInput.betAmount),
                     generated |-> TRUE]
    /\ UNCHANGED <<mapInput, contractVars, backendVars, revealVars, tierVars, serviceVars>>

RewardInit ==
    /\ SystemInit
    /\ mapInput \in RewardInputs
    /\ mapOutput = NoMap

RewardNext == CalculateReward

RewardSpec == RewardInit /\ [][RewardNext]_vars

\* the multiplier, in basis points, of the first tier whose cumulative threshold is
\* strictly greater than the roll
TierMultiplier(roll) ==
    IF roll < 3500 THEN 1000
    ELSE IF roll < 6000 THEN 2000
    ELSE IF roll < 8000 THEN 5000
    ELSE IF roll < 9200 THEN 10000
    ELSE IF roll < 9700 THEN 20000
    ELSE IF roll < 9950 THEN 50000
    ELSE 100000

\* C30: for every roll in 0..9999 and bet, the reward is betAmount * m / 10000 in
\* integer division, m the multiplier (1000, 2000, 5000, 10000, 20000, 50000, 100000) of
\* the first tier whose cumulative threshold (3500, 6000, 8000, 9200, 9700, 9950,
\* 10000) is strictly greater than the roll; the roll lies in exactly one tier; and the
\* backend's getTileReward and the contract's _calculateReward return the same amount,
\* from the roll and from a seed, game and tile.
C30_RewardTierAmount ==
    mapOutput.generated =>
        LET roll == mapInput.roll
            betAmount == mapInput.betAmount
            Lower(i) == IF i = 1 THEN 0 ELSE TIER_THRESHOLDS[i - 1]
        IN  /\ mapOutput.contract = (betAmount * TierMultiplier(roll)) \div 10000
            /\ mapOutput.backend = mapOutput.contract
            /\ Cardinality({i \in 1..7 : Lower(i) <= roll /\ roll < TIER_THRESHOLDS[i]}) = 1
            /\ \A gameId \in GameIds :
                   getTileReward(roll, gameId, betAmount, roll % 49)
                   = _calculateReward(roll, gameId, roll % 49, betAmount)

\* the roll equal to the first threshold takes the second tier: 15 * 2000 / 10000 = 3
C30_Witness ==
    /\ mapOutput.generated
    /\ mapInput.roll = 3500
    /\ mapInput.betAmount = 15
    /\ mapOutput.contract = 3
    /\ mapOutput.backend = 3

(***************************************************************************)
(* C31: the reward amount the contract recomputes for a game's             *)
(* (final seed, gameId, tile, betAmount) is the same before and after      *)
(* every step taken while the game is Active: what completeGame expects    *)
(* equals what was computed when the tile was revealed, whatever the owner *)
(* does in between.                                                        *)
(***************************************************************************)
C31_RewardStableWhileActive ==
    [][\A g \in GameIds, salt \in Salts, tileIndex \in 0..24 :
          (games[g].phase = Active /\ games'[g].phase = Active) =>
              LET finalSeed == calculateFinalSeed(games[g].pythSeed, salt, g)
              IN  _calculateReward(finalSeed, g, tileIndex, games[g].betAmount)' =
                  _calculateReward(finalSeed, g, tileIndex, games[g].betAmount)]_vars

(***************************************************************************)
(* POST /api/game/prepare as the steps between its awaits.  A request      *)
(* reads the player's active game, draws a salt, sends commitSaltHash,     *)
(* saves the salt in the database and then in pendingSaltCache; other      *)
(* requests and the event listener run between these steps.                *)
(***************************************************************************)
\* ethers.randomBytes(32): a salt that was never drawn before
FreshSalt(backendSalt) ==
    /\ \A r \in PrepareIds : prepareRequests[r].salt # backendSalt
    /\ \A p \in Players : <<p, keccak256(<<backendSalt>>)>> \notin saltCommitted

\* up to `await sendSyncTx('commitSaltHash', ...)`
prepareRead(r, player, backendSalt, gridWidth) ==
    /\ prepareRequests[r].pc = "idle"
    /\ gridWidth \in {5, 6, 7}
    /\ getActiveGame(player) = {}
    /\ FreshSalt(backendSalt)
    /\ prepareRequests' = [prepareRequests EXCEPT ![r] =
            [pc |-> "commit", player |-> player, salt |-> backendSalt]]

\* the commitSaltHash transaction: accepted, or answered with status 500
prepareCommit(r) ==
    LET req == prepareRequests[r]
        backendSaltHash == keccak256(<<req.salt>>)
    IN  /\ req.pc = "commit"
        /\ IF playerActiveGame[req.player] = 0
           THEN /\ commitSaltHash(req.player, backendSaltHash)
                /\ relayerTxs' = relayerTxs \cup
                       {<<"commitSaltHash", req.player, backendSaltHash>>}
                /\ prepareRequests' = [prepareRequests EXCEPT ![r].pc = "save"]
           ELSE /\ UNCHANGED <<contractVars, relayerTxs>>
                /\ prepareRequests' = [prepareRequests EXCEPT ![r] = NoPrepare]
        /\ UNCHANGED <<dbGame, dbActions, dbPendingSalts, pendingSaltCache, eventCursor,
                       response>>

\* await db.savePendingSalt(backendSaltHash, backendSalt, player)
prepareSave(r) ==
    LET req == prepareRequests[r]
    IN  /\ req.pc = "save"
        /\ dbPendingSalts' = savePendingSalt(dbPendingSalts, keccak256(<<req.salt>>),
                                             req.salt, req.player)
        /\ prepareRequests' = [prepareRequests EXCEPT ![r].pc = "cache"]

\* pendingSaltCache.set(player, ...) and the response
prepareRespond(r) ==
    LET req == prepareRequests[r]
    IN  /\ req.pc = "cache"
        /\ pendingSaltCache' = [pendingSaltCache EXCEPT ![req.player] =
                [salt |-> req.salt, saltHash |-> keccak256(<<req.salt>>)]]
        /\ response' = Broadcast("prepare", "none")
        /\ prepareRequests' = [prepareRequests EXCEPT ![r] = NoPrepare]

\* a request is handled in the first free slot
PrepareRead == \E r \in PrepareIds, player \in Players, backendSalt \in Salts :
                   /\ \A other \in 1..(r - 1) : prepareRequests[other].pc # "idle"
                   /\ prepareRead(r, player, backendSalt, RouteGridSize)
                   /\ UNCHANGED <<contractVars, backendVars, mapVars, revealVars, tierVars,
                                  nonceVars, listenerVars>>

PrepareCommit == \E r \in PrepareIds :
                     /\ prepareCommit(r)
                     /\ UNCHANGED <<mapVars, revealVars, tierVars, nonceVars, listenerVars>>

PrepareSave == \E r \in PrepareIds :
                   /\ prepareSave(r)
                   /\ UNCHANGED <<dbGame, dbActions, pendingSaltCache, eventCursor,
                                  relayerTxs, response>>
                   /\ UNCHANGED <<contractVars, mapVars, revealVars, tierVars, nonceVars,
                                  listenerVars>>

PrepareRespond == \E r \in PrepareIds :
                      /\ prepareRespond(r)
                      /\ UNCHANGED <<dbGame, dbActions, dbPendingSalts, eventCursor,
                                     relayerTxs>>
                      /\ UNCHANGED <<contractVars, mapVars, revealVars, tierVars, nonceVars,
                                     listenerVars>>

\* the player's startGame transaction
SaltStartGame == \E player \in Players :
                     /\ gameCounter < MaxGames
                     /\ startGame(player, RouteGridSize, EntropyFee + RouteBet)
                     /\ UNCHANGED <<backendVars, mapVars, revealVars, tierVars, serviceVars>>

\* the GameStarted event: the handler reads the salt hash with contract.games(),
\* and stores null when that call fails
SaltGameStarted == \E gameId \in GameIds :
                       /\ games[gameId].phase # None
                       /\ eventCursor[gameId] = 0
                       /\ \E backendSaltHash \in {games[gameId].backendSaltHash, 0} :
                              handleGameStarted(gameId, games[gameId].player,
                                                games[gameId].betAmount,
                                                gameGridSize[gameId], backendSaltHash)
                       /\ eventCursor' = [eventCursor EXCEPT ![gameId] = 1]
                       /\ UNCHANGED <<contractVars, mapVars, revealVars, tierVars,
                                      serviceVars>>

\* the VRFReceived event of a game whose callback has arrived
SaltVRFReceived == \E gameId \in GameIds :
                       /\ games[gameId].phase = Active
                       /\ eventCursor[gameId] = 1
                       /\ handleVRFReceived(gameId, games[gameId].pythSeed)
                       /\ eventCursor' = [eventCursor EXCEPT ![gameId] = 2]
                       /\ UNCHANGED <<contractVars, mapVars, revealVars, tierVars,
                                      serviceVars>>

SaltNext ==
    \/ PrepareRead
    \/ PrepareCommit
    \/ PrepareSave
    \/ PrepareRespond
    \/ SaltStartGame
    \/ SaltGameStarted
    \/ LifecycleEntropyCallback
    \/ SaltVRFReceived

SaltSpec == Init /\ [][SaltNext]_vars

(***************************************************************************)
(* C32: the salt that handleVRFReceived persisted for a game hashes to the *)
(* backendSaltHash the contract holds for that game.                       *)
(***************************************************************************)
C32_PersistedSaltMatchesCommitment ==
    \A g \in GameIds :
        (dbGame[g].exists /\ dbGame[g].backend_salt # 0) =>
            keccak256(<<dbGame[g].backend_salt>>) = games[g].backendSaltHash

(***************************************************************************)
(* One game played through the reveal route, one request at a time, with   *)
(* the event listener handling the contract's TileRevealed and             *)
(* GameCompleted events some time after they are emitted, and with         *)
(* transactions that are lost before they are mined.                       *)
(***************************************************************************)
\* the tiles requested: ways from the start tile 20 to the finish tile 0 over the
\* reward tiles 5, 7 and 1, the trap 16 beside the start, and a tile off the grid
SettleTileInputs == {0, 1, 2, 5, 6, 7, 10, 15, 16, 25}

\* sendSyncTx('revealTile', ...) throws: the transaction was not mined
revealSubmitFails(r) ==
    LET q == revealRequests[r]
    IN  /\ q.pc = "submitted"
        /\ pendingReveals' = pendingReveals \ {<<q.gameId, q.tileIdx>>}
        /\ revealRequests' = Respond(r, 500)
        /\ UNCHANGED <<revealedTilesCache, contractVars, backendVars>>

\* sendSyncTx('completeGame', ...) throws: .catch() logs the error
revealCompleteFails(r) ==
    LET q == revealRequests[r]
    IN  /\ q.pc = "completing"
        /\ revealRequests' = Respond(r, q.status)
        /\ UNCHANGED <<pendingReveals, revealedTilesCache, contractVars, backendVars>>

\* totalCollected of the TileRevealed event of the game's i-th accepted reveal
TotalCollected(gameId, i) ==
    IF gameReveals[gameId][i].tileType = Bomb THEN 0
    ELSE SumRewards(SubSeq(gameReveals[gameId], 1, i), finishTile[gameId])

\* the events of a game are handled in the order of their emission: GameStarted,
\* VRFReceived, GameReady, one TileRevealed per accepted reveal, GameCompleted
SettleRead == \E player \in Players, gameId \in GameIds, tileIdx \in SettleTileInputs :
                  /\ gameId <= MaxGames
                  /\ revealRead(1, player, gameId, tileIdx)
                  /\ UNCHANGED <<contractVars, backendVars, mapVars, tierVars, serviceVars>>

SettleSubmitFails == \E r \in RequestIds :
                         /\ revealSubmitFails(r)
                         /\ UNCHANGED <<mapVars, tierVars, serviceVars>>

SettleCompleteFails == \E r \in RequestIds :
                           /\ revealCompleteFails(r)
                           /\ UNCHANGED <<mapVars, tierVars, serviceVars>>

SettleTileRevealed ==
    \E gameId \in GameIds :
        LET i == eventCursor[gameId] - 2
        IN  /\ eventCursor[gameId] >= 3
            /\ i <= Len(gameReveals[gameId])
            /\ handleTileRevealed(gameId, gameReveals[gameId][i].tileIndex,
                                  IF gameReveals[gameId][i].tileIndex = finishTile[gameId]
                                     /\ gameReveals[gameId][i].tileType # Bomb
                                  THEN Empty ELSE gameReveals[gameId][i].tileType,
                                  TotalCollected(gameId, i))
            /\ eventCursor' = [eventCursor EXCEPT ![gameId] = @ + 1]
            /\ UNCHANGED <<contractVars, mapVars, revealVars, tierVars, serviceVars>>

SettleGameCompleted ==
    \E gameId \in GameIds :
        /\ games[gameId].phase = Completed
        /\ eventCursor[gameId] = 3 + Len(gameReveals[gameId])
        /\ handleGameCompleted(gameId, games[gameId].won, games[gameId].payout)
        /\ eventCursor' = [eventCursor EXCEPT ![gameId] = @ + 1]
        /\ UNCHANGED <<contractVars, mapVars, revealVars, tierVars, serviceVars>>

SettleNext ==
    \/ RoutePrepare
    \/ RouteStartGame
    \/ RouteVRFReceived
    \/ RouteGameReady
    \/ SettleRead
    \/ RevealValidate
    \/ RevealSubmit
    \/ SettleSubmitFails
    \/ RevealComplete
    \/ SettleCompleteFails
    \/ RevealRecord
    \/ RevealReturn
    \/ SettleTileRevealed
    \/ SettleGameCompleted

SettleSpec == Init /\ [][SettleNext]_vars

\* both db.completeGame writes of game g were applied: the GameCompleted event was
\* handled and no handler of the reveal route is still running
BothWritesApplied(g) ==
    /\ eventCursor[g] = 4 + Len(gameReveals[g])
    /\ \A r \in RequestIds : revealRequests[r].pc \in {"idle", "done"}
    /\ dbGame[g].phase = "completed"

(***************************************************************************)
(* C33: once the reveal handler's write and the GameCompleted handler's    *)
(* write of a won game were both applied, the payout in the game's         *)
(* document is the net payout the contract paid.                           *)
(***************************************************************************)
C33_PersistedPayoutIsNet ==
    \A g \in GameIds :
        (games[g].phase = Completed /\ games[g].won /\ BothWritesApplied(g)) =>
            dbGame[g].payout = games[g].payout

(***************************************************************************)
(* C34: when the revealTile transaction of a move the contract would       *)
(* accept fails and the request is answered with status 500, the tile is   *)
(* not in the game's revealedTilesCache afterwards, no pending entry is    *)
(* left for it and the token position in the game's document is unchanged. *)
(***************************************************************************)
C34_FailedRevealLeavesNoTrace ==
    [][\A r \in RequestIds :
          LET q == revealRequests[r]
          IN  (/\ q.pc = "submitted"
               /\ revealTileRequires(q.player, q.gameId, q.tileIdx, q.tileType)
               /\ revealRequests'[r].pc = "done"
               /\ revealRequests'[r].status = 500) =>
                  /\ q.tileIdx \notin revealedTilesCache'[q.gameId].tiles
                  /\ <<q.gameId, q.tileIdx>> \notin pendingReveals'
                  /\ dbGame'[q.gameId].fox_position = dbGame[q.gameId].fox_position]_vars

(***************************************************************************)
(* NonceManager and sendSyncTx.  The relayer account's transactions are    *)
(* mined in the order of their nonces; the account is also used outside    *)
(* the server (the hardhat scripts sign with RELAYER_PRIVATE_KEY), so a    *)
(* nonce the manager hands out may already be taken.                       *)
(***************************************************************************)
MaxTxNonce == 3      \* nonces are handed out and mined up to this one

\* sendSyncTx(functionName, args, gasLimit = 3000000, retries = 2)
retries == 2

\* provider.getTransactionCount(address, 'pending'): the mined transactions and those
\* of the calls in flight that the node has received and can execute next
RECURSIVE PendingCount(_)
PendingCount(n) ==
    IF \E a \in CallIds : txAttempts[a].pc = "sending" /\ txAttempts[a].nonce = n
    THEN PendingCount(n + 1) ELSE n

\* NonceManager.getNextNonce, in a new call of sendSyncTx or in its next attempt
getNextNonce(a) ==
    /\ txAttempts[a].pc \in {"idle", "retry"}
    /\ txAttempts' = [txAttempts EXCEPT ![a].pc = "sending", ![a].nonce = currentNonce]
    /\ currentNonce' = currentNonce + 1
    /\ UNCHANGED accountNonce

\* sendTransactionSync returns the receipt; onTxComplete
txMined(a) ==
    /\ txAttempts[a].pc = "sending"
    /\ txAttempts[a].nonce = accountNonce
    /\ accountNonce' = accountNonce + 1
    /\ txAttempts' = [txAttempts EXCEPT ![a] = NoAttempt]
    /\ UNCHANGED currentNonce

\* sendTransactionSync throws "nonce too low": resync if attempts are left, else throw
txNonceError(a) ==
    /\ txAttempts[a].pc = "sending"
    /\ txAttempts[a].nonce < accountNonce
    /\ txAttempts' = [txAttempts EXCEPT ![a] =
            IF @.attempt < retries THEN [@ EXCEPT !.pc = "resync"] ELSE NoAttempt]
    /\ UNCHANGED <<currentNonce, accountNonce>>

\* NonceManager.resync: the answer of provider.getTransactionCount
resyncRead(a) ==
    /\ txAttempts[a].pc = "resync"
    /\ \E count \in accountNonce..PendingCount(accountNonce) :
           txAttempts' = [txAttempts EXCEPT ![a].pc = "assign", ![a].count = count]
    /\ UNCHANGED <<currentNonce, accountNonce>>

\* NonceManager.resync: this.currentNonce = (the awaited count); continue
resyncAssign(a) ==
    /\ txAttempts[a].pc = "assign"
    /\ currentNonce' = txAttempts[a].count
    /\ txAttempts' = [txAttempts EXCEPT ![a].pc = "retry", ![a].attempt = @ + 1,
                                        ![a].count = 0]
    /\ UNCHANGED accountNonce

\* a transaction of the relayer account that was not sent by the server is mined
externalTx ==
    /\ accountNonce' = accountNonce + 1
    /\ UNCHANGED <<currentNonce, txAttempts>>

NonceUnchanged ==
    UNCHANGED <<contractVars, backendVars, mapVars, revealVars, tierVars, prepareRequests,
                listenerVars>>

GetNextNonce == \E a \in CallIds :
                    /\ currentNonce < MaxTxNonce
                    /\ getNextNonce(a)
                    /\ NonceUnchanged

TxMined == \E a \in CallIds : txMined(a) /\ NonceUnchanged

TxNonceError == \E a \in CallIds : txNonceError(a) /\ NonceUnchanged

ResyncRead == \E a \in CallIds : resyncRead(a) /\ NonceUnchanged

ResyncAssign == \E a \in CallIds : resyncAssign(a) /\ NonceUnchanged

ExternalTx == accountNonce < MaxTxNonce /\ externalTx /\ NonceUnchanged

NonceNext ==
    \/ GetNextNonce
    \/ TxMined
    \/ TxNonceError
    \/ ResyncRead
    \/ ResyncAssign
    \/ ExternalTx

NonceSpec == Init /\ [][NonceNext]_vars

(***************************************************************************)
(* C35: the nonces of the sendSyncTx attempts in flight are pairwise       *)
(* distinct, and currentNonce is above every one of them.                  *)
(***************************************************************************)
C35_NoncesInFlightDistinct ==
    /\ \A a, b \in CallIds :
           (a # b /\ txAttempts[a].pc = "sending" /\ txAttempts[b].pc = "sending") =>
               txAttempts[a].nonce # txAttempts[b].nonce
    /\ \A a \in CallIds :
           txAttempts[a].pc = "sending" => txAttempts[a].nonce < currentNonce

(***************************************************************************)
(* C36: while a game is Active its collectedReward is the sum of the       *)
(* rewards of the accepted reveals claimed as Reward, the finish tile      *)
(* adding nothing; a reveal claimed as Empty leaves collectedReward        *)
(* unchanged; every accepted reveal appends exactly one entry to the claim *)
(* log; and the game stays Active after a reveal.  The finish tile is the  *)
(* game's finishTile, as completeGame reads it.                            *)
(***************************************************************************)
C36_CollectedIsSumOfRewardClaims ==
    [][\A g \in GameIds :
          /\ games'[g].phase = Active =>
                 games'[g].collectedReward = SumRewards(gameReveals'[g], finishTile'[g])
          /\ gameReveals'[g] # gameReveals[g] =>
                 LET reveal == gameReveals'[g][Len(gameReveals'[g])]
                 IN  /\ games[g].phase = Active
                     /\ gameReveals'[g] = Append(gameReveals[g], reveal)
                     /\ games'[g].revealedCount = games[g].revealedCount + 1
                     /\ games'[g].phase = Active
                     /\ (reveal.tileType = Empty \/ reveal.tileIndex = finishTile[g]) =>
                            games'[g].collectedReward = games[g].collectedReward
                     /\ (reveal.tileType = Reward /\ reveal.tileIndex # finishTile[g]) =>
                            games'[g].collectedReward =
                                games[g].collectedReward + reveal.reward]_vars

(***************************************************************************)
(* C37: a game becomes Active only through entropyCallback for the         *)
(* sequence number its own startGame was given; its pythSeed is written    *)
(* in that step and in no other; and a callback for an unknown sequence    *)
(* number, a second callback for the same sequence number or a callback    *)
(* after cancelGame is rejected, so it changes nothing.                    *)
(***************************************************************************)
\* entropyCallback reverts for this sequence number, whatever the random number
CallbackRejected(sequenceNumber) ==
    \A randomNumber \in PythSeeds : ~ENABLED entropyCallback(sequenceNumber, randomNumber)

\* the sequence number entropy.requestV2 returned to the startGame that created game g
SequenceOf(g) == SequenceNumber(g - 1)

C37_ActiveOnlyByOwnCallback ==
    /\ [](\A sequenceNumber \in SequenceNumbers :
              (vrfSeqToGame[sequenceNumber] = 0
               \/ games[vrfSeqToGame[sequenceNumber]].phase # WaitingVRF)
                  => CallbackRejected(sequenceNumber))
    /\ [][\A g \in GameIds :
             /\ (games[g].phase # Active /\ games'[g].phase = Active) =>
                    /\ games[g].phase = WaitingVRF
                    /\ vrfSeqToGame[SequenceOf(g)] = g
                    /\ \E randomNumber \in PythSeeds :
                           entropyCallback(SequenceOf(g), randomNumber)
             /\ games'[g].pythSeed # games[g].pythSeed =>
                    (games[g].phase = WaitingVRF /\ games'[g].phase = Active)]_vars

\* one game cancelled while it waited for its callback, the other made Active by its
\* own callback and played on: callbacks for both sequence numbers and for the
\* sequence number never issued are now rejected
C37_Witness ==
    \E g, h \in GameIds :
        /\ games[g].phase = Completed /\ games[g].pythSeed = 0
        /\ vrfSeqToGame[SequenceOf(g)] = g
        /\ games[h].phase = Active /\ games[h].pythSeed # 0
        /\ gameReveals[h] # <<>>
        /\ \E sequenceNumber \in SequenceNumbers : vrfSeqToGame[sequenceNumber] = 0

(***************************************************************************)
(* Games played to the end by the backend as it is written: the tiles, the *)
(* tile types and the rewards it submits are those of the generated map.   *)
(***************************************************************************)
PayoutMaxReveals == 8    \* reveals per game
\* the random numbers of the callback: a map whose rewards are small, and one with a
\* reward tile of the top tier on a path to the finish
PayoutSeeds == {41, 225}
PayoutBets == {minBet, 100}

\* the salt the backend committed for game g
PayoutSalt(g) == CHOOSE s \in CommitSalts : keccak256(<<s>>) = games[g].backendSaltHash

PayoutFinalSeed(g) == calculateFinalSeed(games[g].pythSeed, PayoutSalt(g), g)

\* the map the backend generates for game g
PayoutMap(g) == generateMap(PayoutFinalSeed(g), g, gameGridSize[g])

\* the tile type and the reward the reveal route submits for a tile
PayoutClaim(g, tileIndex) ==
    LET map == PayoutMap(g)
    IN  IF tileIndex \in map.bombSet THEN <<Bomb, 0>>
        ELSE IF isRewardTile(PayoutFinalSeed(g), g, map.bombSet, map.startTile,
                             map.finishTile, tileIndex, gameGridSize[g])
        THEN <<Reward, getTileReward(PayoutFinalSeed(g), g, games[g].betAmount, tileIndex)>>
        ELSE <<Empty, 0>>

PayoutStartGame == \E sender \in Players, betAmount \in PayoutBets :
                       /\ gameCounter < MaxGames
                       /\ startGame(sender, 5, EntropyFee + betAmount)
                       /\ UNCHANGED <<backendVars, mapVars, revealVars, tierVars, serviceVars>>

PayoutEntropyCallback ==
    \E sequenceNumber \in SequenceNumbers, randomNumber \in PayoutSeeds :
        /\ entropyCallback(sequenceNumber, randomNumber)
        /\ UNCHANGED <<backendVars, mapVars, revealVars, tierVars, serviceVars>>

PayoutSetGameTiles == \E gameId \in GameIds :
                          /\ games[gameId].phase = Active
                          /\ setGameTiles(gameId, PayoutMap(gameId).startTile,
                                          PayoutMap(gameId).finishTile)
                          /\ UNCHANGED <<backendVars, mapVars, revealVars, tierVars, serviceVars>>

PayoutRevealTile == \E gameId \in GameIds, tileIndex \in 0..24 :
                        /\ games[gameId].phase = Active
                        /\ startTile[gameId] # 0
                        /\ hitBombAt[gameId] = 0
                        /\ foxPosition[gameId] # finishTile[gameId]
                        /\ games[gameId].revealedCount < PayoutMaxReveals
                        /\ LET claim == PayoutClaim(gameId, tileIndex)
                           IN  revealTile(games[gameId].player, gameId, tileIndex,
                                          claim[1], claim[2])
                        /\ UNCHANGED <<backendVars, mapVars, revealVars, tierVars, serviceVars>>

PayoutCompleteGame == \E gameId \in GameIds :
                          /\ games[gameId].phase = Active
                          /\ completeGame(gameId, PayoutSalt(gameId), PayoutMap(gameId).nonce)
                          /\ UNCHANGED <<backendVars, mapVars, revealVars, tierVars, serviceVars>>

PayoutNext ==
    \/ CommitSaltHash
    \/ PayoutStartGame
    \/ PayoutEntropyCallback
    \/ PayoutSetGameTiles
    \/ PayoutRevealTile
    \/ PayoutCompleteGame

PayoutSpec == Init /\ [][PayoutNext]_vars

(***************************************************************************)
(* C38: the net payout of a won game is at most ten times its bet, the     *)
(* maxPotentialPayout that startGame requires the balance to cover.        *)
(***************************************************************************)
C38_PayoutWithinMaxPotential ==
    \A g \in GameIds :
        (games[g].phase = Completed /\ games[g].won) =>
            games[g].payout <= games[g].betAmount * 10

(***************************************************************************)
(* EventListener: start, stop, connect and scheduleReconnect.  socket is   *)
(* the WebSocket of the current provider: "connecting" from its            *)
(* construction until the connection is established ("open") or lost       *)
(* ("closed").  failedConnects counts the reconnect attempts made since    *)
(* the connection was last open.                                           *)
(***************************************************************************)
maxReconnectAttempts == 10
reconnectDelay == 2000

\* scheduleReconnect: this.reconnectDelay * Math.pow(1.5, this.reconnectAttempts - 1)
ReconnectDelayOf(attempts) ==
    (reconnectDelay * (3 ^ (attempts - 1))) \div (2 ^ (attempts - 1))

scheduleReconnect(attempts) ==
    IF attempts >= maxReconnectAttempts
    THEN /\ reconnectAttempts' = attempts
         /\ UNCHANGED reconnectTimer
    ELSE /\ reconnectAttempts' = attempts + 1
         /\ reconnectTimer' = [pending |-> TRUE, delay |-> ReconnectDelayOf(attempts + 1)]

\* connect: either the provider is constructed and the handlers are registered, or the
\* try block throws
connect ==
    \/ /\ socket' = "connecting"
       /\ reconnectAttempts' = 0
       /\ UNCHANGED reconnectTimer
    \/ /\ UNCHANGED socket
       /\ IF isRunning' THEN scheduleReconnect(reconnectAttempts)
          ELSE UNCHANGED <<reconnectAttempts, reconnectTimer>>

start ==
    /\ ~isRunning
    /\ socket = "none"
    /\ isRunning' = TRUE
    /\ connect
    /\ UNCHANGED failedConnects

stop ==
    /\ isRunning
    /\ isRunning' = FALSE
    /\ socket' = IF socket = "none" THEN "none" ELSE "closed"
    /\ UNCHANGED <<reconnectAttempts, reconnectTimer, failedConnects>>

\* the WebSocket's connection is established
socketOpen ==
    /\ socket = "connecting"
    /\ socket' = "open"
    /\ failedConnects' = 0
    /\ UNCHANGED <<isRunning, reconnectAttempts, reconnectTimer>>

\* websocket.on('close'): the connection failed or was lost
socketClose ==
    /\ socket \in {"connecting", "open"}
    /\ socket' = "closed"
    /\ IF isRunning THEN scheduleReconnect(reconnectAttempts)
       ELSE UNCHANGED <<reconnectAttempts, reconnectTimer>>
    /\ UNCHANGED <<isRunning, failedConnects>>

\* the setTimeout callback of scheduleReconnect
timerFires ==
    /\ reconnectTimer.pending
    /\ IF isRunning
       THEN /\ failedConnects' = failedConnects + 1
            /\ \/ /\ socket' = "connecting"
                  /\ reconnectAttempts' = 0
                  /\ reconnectTimer' = [reconnectTimer EXCEPT !.pending = FALSE]
               \/ /\ UNCHANGED socket
                  /\ IF reconnectAttempts >= maxReconnectAttempts
                     THEN /\ reconnectTimer' = [reconnectTimer EXCEPT !.pending = FALSE]
                          /\ UNCHANGED reconnectAttempts
                     ELSE scheduleReconnect(reconnectAttempts)
       ELSE /\ reconnectTimer' = [reconnectTimer EXCEPT !.pending = FALSE]
            /\ UNCHANGED <<socket, reconnectAttempts, failedConnects>>
    /\ UNCHANGED isRunning

ListenerUnchanged ==
    UNCHANGED <<contractVars, backendVars, mapVars, revealVars, tierVars, prepareRequests,
                nonceVars>>

\* the server starts the listener once, as it was constructed
ListenerStart ==
    /\ reconnectAttempts = 0 /\ ~reconnectTimer.pending
    /\ start
    /\ ListenerUnchanged

ListenerStop == stop /\ ListenerUnchanged

SocketOpen == socketOpen /\ ListenerUnchanged

SocketClose == socketClose /\ ListenerUnchanged

TimerFires == failedConnects <= maxReconnectAttempts /\ timerFires /\ ListenerUnchanged

ListenerNext ==
    \/ ListenerStart
    \/ ListenerStop
    \/ SocketOpen
    \/ SocketClose
    \/ TimerFires

ListenerSpec == Init /\ [][ListenerNext]_vars

(***************************************************************************)
(* C40: after the connection is lost the listener makes at most            *)
(* maxReconnectAttempts consecutive reconnect attempts, each after a       *)
(* longer delay than the one before; reconnectAttempts returns to 0 only   *)
(* when a connection is open again; and no reconnect attempt is made       *)
(* after stop().                                                           *)
(***************************************************************************)
C40_ReconnectsBounded ==
    [][/\ failedConnects' <= maxReconnectAttempts
       /\ (reconnectTimer'.pending /\ ~reconnectTimer.pending /\ failedConnects > 0) =>
              reconnectTimer'.delay > reconnectTimer.delay
       /\ (reconnectAttempts > 0 /\ reconnectAttempts' = 0) => socket' = "open"
       /\ (~isRunning /\ ~isRunning') => /\ failedConnects' = failedConnects
                                          /\ socket' # "connecting"]_vars

(***************************************************************************)
(* The settlement under fair scheduling: a handler that can take its next  *)
(* step takes it, and an emitted event is handled.  What the player does   *)
(* and whether a transaction fails are left open.                          *)
(***************************************************************************)
\* the tiles the player asks for: the trap next to the start tile, and the way up the
\* first column to the finish tile
FairTileInputs == {21, 15, 10, 5, 0}

FairRead == \E player \in Players, gameId \in GameIds, tileIdx \in FairTileInputs :
                /\ gameId <= MaxGames
                /\ revealRead(1, player, gameId, tileIdx)
                /\ UNCHANGED <<contractVars, backendVars, mapVars, tierVars, serviceVars>>

SettleFairNext ==
    \/ RoutePrepare
    \/ RouteStartGame
    \/ RouteVRFReceived
    \/ RouteGameReady
    \/ FairRead
    \/ RevealValidate
    \/ RevealSubmit
    \/ SettleSubmitFails
    \/ RevealComplete
    \/ SettleCompleteFails
    \/ RevealRecord
    \/ RevealReturn
    \/ SettleTileRevealed
    \/ SettleGameCompleted

\* a VRFReceived event is due, a request waits for its validation, a completeGame
\* transaction is in flight: the states in which RouteVRFReceived, RevealValidate and
\* RevealComplete can take a step
VRFPending == \E sequenceNumber \in SequenceNumbers :
                  /\ vrfSeqToGame[sequenceNumber] # 0
                  /\ games[vrfSeqToGame[sequenceNumber]].phase = WaitingVRF
ValidatePending == \E r \in RequestIds : revealRequests[r].pc = "read"
CompletePending == \E r \in RequestIds : revealRequests[r].pc = "completing"

\* weak fairness of every step of the backend, with the enabling condition of the
\* three steps above written out: each is a conjunct of its action (the position of
\* the handler, the guards of entropyCallback), so the condition is at least as
\* strong as WF_vars of the action
SettleFairness ==
    /\ <>[]VRFPending => []<><<RouteVRFReceived>>_vars
    /\ WF_vars(RouteGameReady)
    /\ <>[]ValidatePending => []<><<RevealValidate>>_vars
    /\ WF_vars(RevealSubmit)
    /\ <>[]CompletePending => []<><<RevealComplete>>_vars
    /\ WF_vars(RevealRecord)
    /\ WF_vars(RevealReturn)
    /\ WF_vars(SettleTileRevealed)
    /\ WF_vars(SettleGameCompleted)

SettleFairSpec == Init /\ [][SettleFairNext]_vars /\ SettleFairness

(***************************************************************************)
(* C39: once a terminal reveal (a trap hit or the finish tile) has been    *)
(* accepted for a game, the game is eventually Completed on-chain and      *)
(* completed in the backend store.                                         *)
(***************************************************************************)
C39_TerminalRevealSettles ==
    \A g \in GameIds :
        TerminalReveal(g) ~> (games[g].phase = Completed /\ dbGame[g].phase = "completed")

=============================================================================
